---- MODULE Spec2Model ----
(***************************************************************************)
(* The journaling (durability) engine of mongo/db/storage/mmap_v1/dur.cpp: *)
(* write intents, the two group-commit paths, the private-view remap, the  *)
(* forced (early) commit of foreground threads, journal acknowledgement,   *)
(* and crash + recovery.                                                   *)
(*                                                                         *)
(* One byte of mapped memory is one address; one address is one mapped     *)
(* file.  Every write stores a fresh value, so a value names the write     *)
(* that produced it (0 is the content of a file that was never written).   *)
(***************************************************************************)
EXTENDS Integers, Sequences, FiniteSets, TLC

\* ------------------------------------------------------------- bounds
\* total number of declareWriteIntent calls in one behaviour
MaxWrites == 3
\* cap on the NotifyAll counter _lastReturned (commit epochs + awaitCommit calls)
MaxEpoch == 3
\* number of background cycles followed in the specification of the remap cadence
MaxCycles == 24
\* number of mapped files, and of calls of _REMAPPRIVATEVIEW, in the specification of
\* the remap sweep
MaxFiles == 3
MaxSweeps == 4
\* sections in the journal that startup() finds
MaxJournal == 3
\* dur_commitjob.h's UncommittedBytesLimit, scaled to the one-byte intents of the model
UncommittedBytesLimit == 2

\* ------------------------------------------------------------- program constants
\* durThreadGroupCommit: every Nth commit takes the full-lock path
N == 10

\* ------------------------------------------------------------- threads, memory
\* foreground threads: every one of them may lock and write; the ones in Callers also
\* call commitIfNeeded and awaitCommit
Fg == {"f1", "f2"}
Callers == {"f1"}
DurThread == "dur"
Threads == Fg \cup {DurThread}

\* the modes in which a foreground thread takes the global lock
Modes(t) == IF t \in Callers THEN {"r", "w", "R", "W"} ELSE {"w"}

\* the databases a foreground thread locks in mode m: 'r' and 'w' are locks of one
\* database ("test" stands for every database but local and admin), 'R' and 'W' of none
Dbs(t, m) ==
    IF m \in {"R", "W"} THEN {"none"}
    ELSE IF m = "w" /\ t \in Callers THEN {"test", "local", "admin"}
    ELSE {"test"}

\* MongoFile::getAllFiles(), in iteration order; one mapped byte per file
Files == <<"x">>
Addr == {Files[i] : i \in DOMAIN Files}

NoThread == "free"

VARIABLES
    pc,               \* position of every thread
    lockState,        \* txn->lockState()->threadState(): "none" (\0), "r", "w", "R", "W"
    call,             \* per thread: the frame of the running commitIfNeeded / groupCommit
    groupCommitMutex, \* commitJob.groupCommitMutex: holder or NoThread
    mmmutex,          \* threads holding LockMongoFilesShared
    commitJob,        \* [intents, bytes, hasWritten, commitNumber]
    notify,           \* commitJob._notify: [lastReturned, lastDone, nWaiting]
    waitFor,          \* per thread: the epoch e of its awaitBeyondNow (0: not waiting)
    privateMapBytes,
    n,                \* durThreadGroupCommit's static int n (mod N)
    ab,               \* __theBuilder: the prepared section, a set of <<addr, value>>
    journal,          \* the journal file: sequence of [data, complete]
    shared,           \* the shared (view_write) views = data files as the OS caches them
    cow,              \* addresses whose private page is a copy-on-write copy
    privVal,          \* content of the private copy of each address (last value written)
    willNeedRemap,    \* files with DurableMappedFile::willNeedRemap()
    startAt,          \* _REMAPPRIVATEVIEW's static startAt
    disk,             \* data files as on durable storage after a crash
    written,          \* history: every value a byte of the shared views has held
    phase,            \* "running", "crashed", "recovered"
    nwrites,          \* number of writes so far (source of fresh values)
    snapG,            \* history: privVal at the commitingBegin of the running cycle
    durableG,         \* history: privVal at the commitingBegin of the last cycle whose
                      \*          WRITETOJOURNAL finished
    ackG,             \* history, per waiter: privVal when it called awaitCommit
    dbLocked,         \* per thread: the database its 'r'/'w' lock is for ("none": no such lock)
    commitsInWriteLock, \* stats.curr->_commitsInWriteLock
    seqG,             \* history: the commit number each thread's running cycle began with,
                      \*          and the commit numbers of the section last written to the
                      \*          journal and of the section last written to the data files
    durOptions,       \* storageGlobalParams.durOptions (the set of option bits that are on)
    modeG,            \* history: the path each background cycle took, in order
    allFiles,         \* MongoFile::getAllFiles() in iteration order, by kind of file
                      \*   ("durable": a DurableMappedFile, "plain": another MongoFile)
    sweepG,           \* history of the calls of _REMAPPRIVATEVIEW
    slept,            \* durThread: the thirds of the interval slept in this iteration
    numExitCalls,     \* instance.cpp's numExitCalls (inShutdown() is numExitCalls > 0)
    startupG          \* dur::startup(): [dur: storageGlobalParams.dur, impl: what
                      \*   DurableInterface::_impl points to, at: the position of
                      \*   startup(), recovers: the calls of recover() so far,
                      \*   thread: durThread has been started, thrown: startup() was
                      \*   left by an exception, fails: this run's recover() throws]

vars == <<pc, lockState, call, groupCommitMutex, mmmutex, commitJob, notify, waitFor,
          privateMapBytes, n, ab, journal, shared, cow, privVal, willNeedRemap,
          startAt, disk, written, phase, nwrites, snapG, durableG, ackG, dbLocked,
          commitsInWriteLock, seqG, durOptions, modeG, allFiles, sweepG, slept,
          numExitCalls, startupG>>

\* what the commit, lock and remap steps never touch
auxVars == <<durOptions, modeG, allFiles, sweepG, slept, numExitCalls, startupG>>

lockVars == <<lockState, groupCommitMutex, mmmutex>>
memVars == <<shared, written, cow, privVal, willNeedRemap, startAt, nwrites>>
diskVars == <<journal, disk, phase>>
histVars == <<snapG, durableG, ackG>>

NoCall == [entry |-> "none", need |-> FALSE, lgw |-> FALSE,
           began |-> FALSE, upgraded |-> FALSE]

ZeroMem == [a \in Addr |-> 0]

EmptyJob == [intents |-> {}, bytes |-> 0, hasWritten |-> FALSE, commitNumber |-> 0]

NoSeq == [run |-> [t \in Threads |-> 0], journaled |-> 0, applied |-> 0]

CoreInit ==
    /\ pc = [t \in Threads |-> IF t = DurThread THEN "sleep" ELSE "idle"]
    /\ lockState = [t \in Threads |-> "none"]
    /\ call = [t \in Threads |-> NoCall]
    /\ groupCommitMutex = NoThread
    /\ mmmutex = {}
    /\ commitJob = EmptyJob
    /\ notify = [lastReturned |-> 0, lastDone |-> 0, nWaiting |-> 0]
    /\ waitFor = [t \in Threads |-> 0]
    /\ privateMapBytes = 0
    /\ n = 0
    /\ ab = {}
    /\ journal = <<>>
    /\ shared = ZeroMem
    /\ cow = {}
    /\ privVal = ZeroMem
    /\ willNeedRemap = {}
    /\ startAt = 0
    /\ disk = ZeroMem
    /\ written = [a \in Addr |-> {0}]
    /\ phase = "running"
    /\ nwrites = 0
    /\ snapG = ZeroMem
    /\ durableG = ZeroMem
    /\ ackG = [t \in Threads |-> ZeroMem]
    /\ dbLocked = [t \in Threads |-> "none"]
    /\ commitsInWriteLock = 0
    /\ seqG = NoSeq

\* no option bit of durOptions is on; no background cycle has run
OptionsOff ==
    /\ durOptions = {}
    /\ modeG = <<>>

NoSweep == [count |-> 0, from |-> 0, todo |-> 0, bytes |-> 0, examined |-> {}, ever |-> {}]

\* the one mapped file of Files; no call of _REMAPPRIVATEVIEW yet
OneFile ==
    /\ allFiles = <<"durable">>
    /\ sweepG = NoSweep

\* startup() has returned: durability is configured, recover() found nothing to
\* replay, durThread has been started
StartupDone == [dur |-> TRUE, impl |-> "durable", at |-> "returned", recovers |-> 1,
                thread |-> TRUE, thrown |-> FALSE, fails |-> FALSE]

\* the background thread, just started, is at the top of its loop; dbexit has not
\* been called
LoopTop ==
    /\ slept = 0
    /\ numExitCalls = 0
    /\ startupG = StartupDone

Init ==
    /\ CoreInit
    /\ OptionsOff
    /\ OneFile
    /\ LoopTop

\* ------------------------------------------------------------- the global lock
Others(t) == Threads \ {t}

\* a lock mode m can be granted to t next to the modes the other threads hold
Compatible(t, m) ==
    \A u \in Others(t) :
        CASE m = "r" -> lockState[u] # "W"
          [] m = "w" -> lockState[u] \notin {"W", "R"}
          [] m = "R" -> lockState[u] \notin {"W", "w"}
          [] m = "W" -> lockState[u] = "none"

\* content of the private view of address a as a reader of that view sees it
View(a) == IF a \in cow THEN privVal[a] ELSE shared[a]

\* commitJob.hasWritten(), commitJob.bytes()
hasWritten == commitJob.hasWritten
bytes == commitJob.bytes

Running == phase = "running"

\* ------------------------------------------------------------- foreground threads
\* a foreground operation takes the global lock in one of its modes
FgLock(t, m) ==
    /\ Running
    /\ m \in Modes(t)
    /\ pc[t] = "idle"
    /\ lockState[t] = "none"
    /\ Compatible(t, m)
    /\ lockState' = [lockState EXCEPT ![t] = m]
    /\ \E d \in Dbs(t, m) : dbLocked' = [dbLocked EXCEPT ![t] = d]
    /\ UNCHANGED <<pc, call, groupCommitMutex, mmmutex, commitJob, notify, waitFor,
                   privateMapBytes, n, seqG, auxVars, commitsInWriteLock, ab>>
    /\ UNCHANGED <<memVars, diskVars, histVars>>

FgUnlock(t) ==
    /\ Running
    /\ pc[t] = "idle"
    /\ lockState[t] # "none"
    /\ lockState' = [lockState EXCEPT ![t] = "none"]
    /\ dbLocked' = [dbLocked EXCEPT ![t] = "none"]
    /\ UNCHANGED <<pc, call, groupCommitMutex, mmmutex, commitJob, notify, waitFor,
                   privateMapBytes, n, seqG, auxVars, commitsInWriteLock, ab>>
    /\ UNCHANGED <<memVars, diskVars, histVars>>

\* DurableImpl::writingPtr + the caller's store through the returned pointer:
\* declareWriteIntent(a, 1), then the byte is written in the private view
Write(t, a) ==
    /\ Running
    /\ pc[t] = "idle"
    /\ lockState[t] \in {"w", "W"}
    /\ nwrites < MaxWrites
    /\ nwrites' = nwrites + 1
    /\ commitJob' = [commitJob EXCEPT !.intents = @ \cup {a},
                                      !.bytes = @ + 1,
                                      !.hasWritten = TRUE]
    /\ cow' = cow \cup {a}
    /\ privVal' = [privVal EXCEPT ![a] = nwrites + 1]
    /\ UNCHANGED <<pc, call, lockVars, notify, waitFor, privateMapBytes, n, seqG, auxVars, dbLocked, commitsInWriteLock, ab,
                   shared, written, willNeedRemap, startAt>>
    /\ UNCHANGED <<diskVars, histVars>>


\* ------------------------------------------------------------- CommitJob, journal
\* the NotifyAll counter may still be advanced k times
EpochLeft(k) == notify.lastReturned + k <= MaxEpoch

\* threads that entered a commit path and have not run commitingBegin yet
PreBegin == {"LL_lockR", "LL_mutex", "LL_begin", "FL_lockW", "FL_downgrade",
             "ACN_lockR", "ACN_recheck", "ACN_upgrade", "GC_mutex", "GC_begin"}
Pending == Cardinality({t \in Threads : pc[t] \in PreBegin})

\* CommitJob::commitingBegin: _commitNumber = _notify.now()
commitingBegin(job, nfy) ==
    [job |-> [job EXCEPT !.commitNumber = nfy.lastReturned + 1],
     nfy |-> [nfy EXCEPT !.lastReturned = @ + 1]]

\* CommitJob::committingNotifyCommitted: _notify.notifyAll(_commitNumber)
committingNotifyCommitted(job, nfy) ==
    [nfy EXCEPT !.lastDone = job.commitNumber, !.nWaiting = 0]

\* CommitJob::committingReset
committingReset(job) ==
    [job EXCEPT !.intents = {}, !.bytes = 0, !.hasWritten = FALSE]

\* PREPLOGBUFFER: the current bytes of every buffered intent, read through the private view
PREPLOGBUFFER(job) == {<<a, View(a)>> : a \in job.intents}

\* a section applied to a memory image
ApplySection(m, sec) ==
    [a \in Addr |-> IF \E p \in sec : p[1] = a
                    THEN (CHOOSE p \in sec : p[1] = a)[2]
                    ELSE m[a]]

\* WRITETODATAFILES: memcpy of the section into the shared views
WRITETODATAFILES(sec) == ApplySection(shared, sec)

SectionAddrs(sec) == {p[1] : p \in sec}

\* RecoveryReplayer: the complete sections of the journal, applied in order; a section
\* that is not complete ends the replay (it can only be the tail)
RECURSIVE Replay(_, _, _)
Replay(jnl, i, m) ==
    IF i > Len(jnl) \/ ~jnl[i].complete
    THEN m
    ELSE Replay(jnl, i + 1, ApplySection(m, jnl[i].data))

recover(jnl, m) == Replay(jnl, 1, m)

\* the process dies: mongoAbort, a failed invariant/fassert, or a crash of the machine.
\* What the process held in memory is gone; the journal stays as written; of every
\* byte of the shared views the data files hold one of the values it has held (the
\* operating system writes dirty pages back whenever it likes).
Died ==
    /\ phase' = "crashed"
    /\ disk' \in [Addr -> 0 .. MaxWrites]
    /\ \A a \in Addr : disk'[a] \in written[a]
    /\ pc' = [t \in Threads |-> "dead"]
    /\ lockState' = [t \in Threads |-> "none"]
    /\ call' = [t \in Threads |-> NoCall]
    /\ groupCommitMutex' = NoThread
    /\ mmmutex' = {}
    /\ commitJob' = EmptyJob
    /\ notify' = [lastReturned |-> 0, lastDone |-> 0, nWaiting |-> 0]
    /\ waitFor' = [t \in Threads |-> 0]
    /\ privateMapBytes' = 0
    /\ n' = 0
    /\ ab' = {}
    /\ shared' = disk'
    /\ cow' = {}
    /\ privVal' = ZeroMem
    /\ willNeedRemap' = {}
    /\ startAt' = 0
    /\ nwrites' = 0
    /\ snapG' = ZeroMem
    /\ ackG' = [t \in Threads |-> ZeroMem]
    /\ dbLocked' = [t \in Threads |-> "none"]
    /\ commitsInWriteLock' = 0
    /\ seqG' = NoSeq
    /\ UNCHANGED <<journal, written, durableG, auxVars>>

Crash ==
    /\ Running
    /\ Died

\* startup(): recover() replays the journal into the data files
Recover ==
    /\ phase = "crashed"
    /\ phase' = "recovered"
    /\ disk' = recover(journal, disk)
    /\ shared' = recover(journal, disk)
    /\ UNCHANGED <<pc, call, lockVars, commitJob, notify, waitFor, privateMapBytes, n, seqG, auxVars, dbLocked, commitsInWriteLock, ab,
                   written, cow, privVal, willNeedRemap, startAt, nwrites, journal,
                   histVars>>

\* ------------------------------------------------------------- the background thread
\* mutant of CounterAfter: the counter advances by two
CounterAfter_byTwo(pmb, n0) == IF pmb < UncommittedBytesLimit THEN (n0 + 2) % N ELSE n0

\* durThreadGroupCommit's test: privateMapBytes < UncommittedBytesLimit && ++n % N &&
\* (durOptions & DurAlwaysRemap) == 0; n0 is the counter before the test. The counter
\* is kept modulo N
CounterAfter(pmb, n0) == IF pmb < UncommittedBytesLimit THEN (n0 + 1) % N ELSE n0

\* mutant of LimitedLocksChosen: DurAlwaysRemap is not looked at
LimitedLocksChosen_anyOption(pmb, n0, opts) ==
    /\ pmb < UncommittedBytesLimit
    /\ CounterAfter(pmb, n0) # 0

LimitedLocksChosen(pmb, n0, opts) ==
    /\ pmb < UncommittedBytesLimit
    /\ CounterAfter(pmb, n0) # 0
    /\ "DurAlwaysRemap" \notin opts

\* durThreadGroupCommit, called with the background thread at position `from':
\* the choice between the limited-locks path and the full-lock path
DurChoice(t, from) ==
    /\ Running
    /\ t = DurThread
    /\ pc[t] = from
    /\ EpochLeft(Pending + 1)
    /\ n' = CounterAfter(privateMapBytes, n)
    /\ pc' = [pc EXCEPT ![t] = IF LimitedLocksChosen(privateMapBytes, n, durOptions)
                               THEN "LL_lockR" ELSE "FL_lockW"]
    /\ call' = [call EXCEPT ![t] = [NoCall EXCEPT !.lgw = (pc'[t] = "FL_lockW")]]
    /\ UNCHANGED <<lockVars, commitJob, notify, waitFor, privateMapBytes, ab, dbLocked,
                   commitsInWriteLock, seqG, auxVars>>
    /\ UNCHANGED <<memVars, diskVars, histVars>>

\* the loop of durThread with its sleeps left out: an iteration is the call of
\* durThreadGroupCommit
durThreadGroupCommit(t) == DurChoice(t, "sleep")

\* ---- _groupCommitWithLimitedLocks
\* lk1: Lock::GlobalRead
LL_lockR(t) ==
    /\ Running
    /\ pc[t] = "LL_lockR"
    /\ lockState[t] = "none"
    /\ Compatible(t, "R")
    /\ lockState' = [lockState EXCEPT ![t] = "R"]
    /\ pc' = [pc EXCEPT ![t] = "LL_mutex"]
    /\ UNCHANGED <<call, groupCommitMutex, mmmutex, commitJob, notify, waitFor,
                   privateMapBytes, n, seqG, auxVars, dbLocked, commitsInWriteLock, ab>>
    /\ UNCHANGED <<memVars, diskVars, histVars>>

\* mutant of LL_mutex: the limited-locks path runs without the commit mutex
LL_mutex_notTaken(t) ==
    /\ Running
    /\ pc[t] = "LL_mutex"
    /\ pc' = [pc EXCEPT ![t] = "LL_begin"]
    /\ UNCHANGED <<call, lockVars, commitJob, notify, waitFor,
                   privateMapBytes, n, seqG, auxVars, dbLocked, commitsInWriteLock, ab>>
    /\ UNCHANGED <<memVars, diskVars, histVars>>

\* lk2: SimpleMutex::scoped_lock on commitJob.groupCommitMutex
LL_mutex(t) ==
    /\ Running
    /\ pc[t] = "LL_mutex"
    /\ groupCommitMutex = NoThread
    /\ groupCommitMutex' = t
    /\ pc' = [pc EXCEPT ![t] = "LL_begin"]
    /\ UNCHANGED <<call, lockState, mmmutex, commitJob, notify, waitFor,
                   privateMapBytes, n, seqG, auxVars, dbLocked, commitsInWriteLock, ab>>
    /\ UNCHANGED <<memVars, diskVars, histVars>>

\* mutant of LL_begin: the commit number is taken without advancing the counter
LL_begin_sameEpoch(t) ==
    /\ Running
    /\ pc[t] = "LL_begin"
    /\ commitJob' = [commitJob EXCEPT !.commitNumber = notify.lastReturned]
    /\ call' = [call EXCEPT ![t].began = TRUE]
    /\ snapG' = privVal
    /\ pc' = [pc EXCEPT ![t] = "LL_check"]
    /\ seqG' = [seqG EXCEPT !.run[t] = commitJob'.commitNumber]
    /\ UNCHANGED <<lockVars, notify, waitFor, privateMapBytes, n, auxVars, dbLocked,
                   commitsInWriteLock, ab, durableG, ackG>>
    /\ UNCHANGED <<memVars, diskVars>>

LL_begin(t) ==
    /\ Running
    /\ pc[t] = "LL_begin"
    /\ commitJob' = commitingBegin(commitJob, notify).job
    /\ notify' = commitingBegin(commitJob, notify).nfy
    /\ call' = [call EXCEPT ![t].began = TRUE]
    /\ snapG' = privVal
    /\ pc' = [pc EXCEPT ![t] = "LL_check"]
    /\ seqG' = [seqG EXCEPT !.run[t] = commitJob'.commitNumber]
    /\ UNCHANGED <<lockVars, waitFor, privateMapBytes, n, auxVars, dbLocked, commitsInWriteLock, ab, durableG, ackG>>
    /\ UNCHANGED <<memVars, diskVars>>

\* mutant of LL_check: the cycle that finds nothing buffered returns without notifying
LL_check_silent(t) ==
    /\ Running
    /\ pc[t] = "LL_check"
    /\ IF ~hasWritten
       THEN /\ groupCommitMutex' = NoThread
            /\ lockState' = [lockState EXCEPT ![t] = "none"]
            /\ call' = [call EXCEPT ![t] = NoCall]
            /\ pc' = [pc EXCEPT ![t] = "sleep"]
       ELSE /\ pc' = [pc EXCEPT ![t] = "LL_prep"]
            /\ UNCHANGED <<groupCommitMutex, lockState, call>>
    /\ seqG' = IF ~hasWritten THEN [seqG EXCEPT !.run[t] = 0] ELSE seqG
    /\ UNCHANGED <<mmmutex, commitJob, notify, waitFor, privateMapBytes, n, auxVars, dbLocked, commitsInWriteLock, ab>>
    /\ UNCHANGED <<memVars, diskVars, histVars>>

\* if( !commitJob.hasWritten() ) { committingNotifyCommitted(); return true; }
LL_check(t) ==
    /\ Running
    /\ pc[t] = "LL_check"
    /\ IF ~hasWritten
       THEN /\ notify' = committingNotifyCommitted(commitJob, notify)
            /\ groupCommitMutex' = NoThread
            /\ lockState' = [lockState EXCEPT ![t] = "none"]
            /\ call' = [call EXCEPT ![t] = NoCall]
            /\ pc' = [pc EXCEPT ![t] = "sleep"]
       ELSE /\ pc' = [pc EXCEPT ![t] = "LL_prep"]
            /\ UNCHANGED <<notify, groupCommitMutex, lockState, call>>
    /\ seqG' = IF ~hasWritten THEN [seqG EXCEPT !.run[t] = 0] ELSE seqG
    /\ UNCHANGED <<mmmutex, commitJob, waitFor, privateMapBytes, n, auxVars, dbLocked, commitsInWriteLock, ab>>
    /\ UNCHANGED <<memVars, diskVars, histVars>>

LL_prep(t) ==
    /\ Running
    /\ pc[t] = "LL_prep"
    /\ ab' = PREPLOGBUFFER(commitJob)
    /\ pc' = [pc EXCEPT ![t] = "LL_lk3"]
    /\ UNCHANGED <<call, lockVars, commitJob, notify, waitFor, privateMapBytes, n, seqG, auxVars, dbLocked, commitsInWriteLock>>
    /\ UNCHANGED <<memVars, diskVars, histVars>>

\* mutant of LL_lk3: LockMongoFilesShared is not taken
LL_lk3_notTaken(t) ==
    /\ Running
    /\ pc[t] = "LL_lk3"
    /\ pc' = [pc EXCEPT ![t] = "LL_reset"]
    /\ UNCHANGED <<call, lockVars, commitJob, notify, waitFor, privateMapBytes, n, seqG, auxVars, dbLocked,
                   commitsInWriteLock, ab>>
    /\ UNCHANGED <<memVars, diskVars, histVars>>

\* lk3: LockMongoFilesShared
LL_lk3(t) ==
    /\ Running
    /\ pc[t] = "LL_lk3"
    /\ mmmutex' = mmmutex \cup {t}
    /\ pc' = [pc EXCEPT ![t] = "LL_reset"]
    /\ UNCHANGED <<call, lockState, groupCommitMutex, commitJob, notify, waitFor,
                   privateMapBytes, n, seqG, auxVars, dbLocked, commitsInWriteLock, ab>>
    /\ UNCHANGED <<memVars, diskVars, histVars>>

\* mutant of LL_reset: lk1.reset() comes before committingReset()
LL_reset_unlocked(t) ==
    /\ Running
    /\ pc[t] = "LL_reset"
    /\ IF lockState[t] = "R"
       THEN /\ lockState' = [lockState EXCEPT ![t] = "none"]
            /\ UNCHANGED <<pc, commitJob, privateMapBytes>>
       ELSE /\ commitJob' = committingReset(commitJob)
            /\ privateMapBytes' = privateMapBytes + commitJob.bytes
            /\ pc' = [pc EXCEPT ![t] = "LL_unlockR"]
            /\ UNCHANGED lockState
    /\ UNCHANGED <<call, groupCommitMutex, mmmutex, notify, waitFor, n, seqG, auxVars, dbLocked, commitsInWriteLock, ab>>
    /\ UNCHANGED <<memVars, diskVars, histVars>>

LL_reset(t) ==
    /\ Running
    /\ pc[t] = "LL_reset"
    /\ commitJob' = committingReset(commitJob)
    /\ privateMapBytes' = privateMapBytes + commitJob.bytes
    /\ pc' = [pc EXCEPT ![t] = "LL_unlockR"]
    /\ UNCHANGED <<call, lockVars, notify, waitFor, n, seqG, auxVars, dbLocked, commitsInWriteLock, ab>>
    /\ UNCHANGED <<memVars, diskVars, histVars>>

\* lk1.reset(): now other threads can do writes
LL_unlockR(t) ==
    /\ Running
    /\ pc[t] = "LL_unlockR"
    /\ lockState' = [lockState EXCEPT ![t] = "none"]
    /\ pc' = [pc EXCEPT ![t] = "LL_journal"]
    /\ UNCHANGED <<call, groupCommitMutex, mmmutex, commitJob, notify, waitFor,
                   privateMapBytes, n, seqG, auxVars, dbLocked, commitsInWriteLock, ab>>
    /\ UNCHANGED <<memVars, diskVars, histVars>>

\* mutant of LL_journal: the commit is acknowledged when the journal write is issued
LL_journal_ackEarly(t) ==
    /\ Running
    /\ pc[t] = "LL_journal"
    /\ journal' = Append(journal, [data |-> ab, complete |-> FALSE])
    /\ notify' = committingNotifyCommitted(commitJob, notify)
    /\ pc' = [pc EXCEPT ![t] = "LL_journalEnd"]
    /\ seqG' = [seqG EXCEPT !.journaled = seqG.run[t]]
    /\ UNCHANGED <<call, lockVars, commitJob, waitFor, privateMapBytes, n, auxVars, dbLocked, commitsInWriteLock, ab>>
    /\ UNCHANGED <<memVars, disk, phase, histVars>>

\* WRITETOJOURNAL starts appending the section ...
LL_journal(t) ==
    /\ Running
    /\ pc[t] = "LL_journal"
    /\ journal' = Append(journal, [data |-> ab, complete |-> FALSE])
    /\ pc' = [pc EXCEPT ![t] = "LL_journalEnd"]
    /\ seqG' = [seqG EXCEPT !.journaled = seqG.run[t]]
    /\ UNCHANGED <<call, lockVars, commitJob, notify, waitFor, privateMapBytes, n, auxVars, dbLocked, commitsInWriteLock, ab>>
    /\ UNCHANGED <<memVars, disk, phase, histVars>>

\* ... and returns once the whole section is on durable storage
LL_journalEnd(t) ==
    /\ Running
    /\ pc[t] = "LL_journalEnd"
    /\ journal' = [journal EXCEPT ![Len(journal)].complete = TRUE]
    /\ durableG' = snapG
    /\ pc' = [pc EXCEPT ![t] = "LL_notify"]
    /\ UNCHANGED <<call, lockVars, commitJob, notify, waitFor, privateMapBytes, n, seqG, auxVars, dbLocked, commitsInWriteLock, ab>>
    /\ UNCHANGED <<memVars, disk, phase, snapG, ackG>>

\* mutant of LL_notify: the commit mutex is released once the journal is written,
\* before the data files are
LL_notify_unlock(t) ==
    /\ Running
    /\ pc[t] = "LL_notify"
    /\ notify' = committingNotifyCommitted(commitJob, notify)
    /\ groupCommitMutex' = NoThread
    /\ pc' = [pc EXCEPT ![t] = "LL_datafiles"]
    /\ UNCHANGED <<call, lockState, mmmutex, commitJob, waitFor, privateMapBytes, n, seqG, auxVars, dbLocked, commitsInWriteLock, ab>>
    /\ UNCHANGED <<memVars, diskVars, histVars>>

LL_notify(t) ==
    /\ Running
    /\ pc[t] = "LL_notify"
    /\ notify' = committingNotifyCommitted(commitJob, notify)
    /\ pc' = [pc EXCEPT ![t] = "LL_datafiles"]
    /\ UNCHANGED <<call, lockVars, commitJob, waitFor, privateMapBytes, n, seqG, auxVars, dbLocked, commitsInWriteLock, ab>>
    /\ UNCHANGED <<memVars, diskVars, histVars>>

LL_datafiles(t) ==
    /\ Running
    /\ pc[t] = "LL_datafiles"
    /\ shared' = WRITETODATAFILES(ab)
    /\ written' = [a \in Addr |-> written[a] \cup {WRITETODATAFILES(ab)[a]}]
    /\ willNeedRemap' = willNeedRemap \cup SectionAddrs(ab)
    /\ pc' = [pc EXCEPT ![t] = "LL_abreset"]
    /\ seqG' = [seqG EXCEPT !.applied = seqG.run[t]]
    /\ UNCHANGED <<call, lockVars, commitJob, notify, waitFor, privateMapBytes, n, auxVars, dbLocked, commitsInWriteLock, ab>>
    /\ UNCHANGED <<cow, privVal, startAt, nwrites, diskVars, histVars>>

\* mutant of LL_abreset: the commit mutex (lk2) is not released at the return
LL_abreset_keepsMutex(t) ==
    /\ Running
    /\ pc[t] = "LL_abreset"
    /\ ab' = {}
    /\ mmmutex' = mmmutex \ {t}
    /\ call' = [call EXCEPT ![t] = NoCall]
    /\ pc' = [pc EXCEPT ![t] = "sleep"]
    /\ seqG' = [seqG EXCEPT !.run[t] = 0]
    /\ UNCHANGED <<lockState, groupCommitMutex, commitJob, notify, waitFor, privateMapBytes, n,
                   auxVars, dbLocked, commitsInWriteLock>>
    /\ UNCHANGED <<memVars, diskVars, histVars>>

\* ab.reset(); return true (lk3 and lk2 are released)
LL_abreset(t) ==
    /\ Running
    /\ pc[t] = "LL_abreset"
    /\ ab' = {}
    /\ mmmutex' = mmmutex \ {t}
    /\ groupCommitMutex' = NoThread
    /\ call' = [call EXCEPT ![t] = NoCall]
    /\ pc' = [pc EXCEPT ![t] = "sleep"]
    /\ seqG' = [seqG EXCEPT !.run[t] = 0]
    /\ UNCHANGED <<lockState, commitJob, notify, waitFor, privateMapBytes, n, auxVars, dbLocked, commitsInWriteLock>>
    /\ UNCHANGED <<memVars, diskVars, histVars>>


\* ---- durThreadGroupCommit, full-lock path: Lock::GlobalWrite w; w.downgrade();
FL_lockW(t) ==
    /\ Running
    /\ pc[t] = "FL_lockW"
    /\ lockState[t] = "none"
    /\ Compatible(t, "W")
    /\ lockState' = [lockState EXCEPT ![t] = "W"]
    /\ pc' = [pc EXCEPT ![t] = "FL_downgrade"]
    /\ UNCHANGED <<call, groupCommitMutex, mmmutex, commitJob, notify, waitFor,
                   privateMapBytes, n, seqG, auxVars, dbLocked, commitsInWriteLock, ab>>
    /\ UNCHANGED <<memVars, diskVars, histVars>>

FL_downgrade(t) ==
    /\ Running
    /\ pc[t] = "FL_downgrade"
    /\ lockState' = [lockState EXCEPT ![t] = "R"]
    /\ pc' = [pc EXCEPT ![t] = "GC_mutex"]
    /\ UNCHANGED <<call, groupCommitMutex, mmmutex, commitJob, notify, waitFor,
                   privateMapBytes, n, seqG, auxVars, dbLocked, commitsInWriteLock, ab>>
    /\ UNCHANGED <<memVars, diskVars, histVars>>

\* ---- _groupCommit(txn, lgw): the background thread (lgw set) and early commits
\* SimpleMutex::scoped_lock lk(commitJob.groupCommitMutex)
\* mutant of GC_mutex: _groupCommit runs without taking groupCommitMutex
GC_mutex_notTaken(t) ==
    /\ Running
    /\ pc[t] = "GC_mutex"
    /\ pc' = [pc EXCEPT ![t] = "GC_begin"]
    /\ UNCHANGED <<call, lockVars, commitJob, notify, waitFor, privateMapBytes, n, seqG, auxVars, dbLocked, commitsInWriteLock, ab>>
    /\ UNCHANGED <<memVars, diskVars, histVars>>

GC_mutex(t) ==
    /\ Running
    /\ pc[t] = "GC_mutex"
    /\ groupCommitMutex = NoThread
    /\ groupCommitMutex' = t
    /\ pc' = [pc EXCEPT ![t] = "GC_begin"]
    /\ UNCHANGED <<call, lockState, mmmutex, commitJob, notify, waitFor,
                   privateMapBytes, n, seqG, auxVars, dbLocked, commitsInWriteLock, ab>>
    /\ UNCHANGED <<memVars, diskVars, histVars>>

GC_begin(t) ==
    /\ Running
    /\ pc[t] = "GC_begin"
    /\ commitJob' = commitingBegin(commitJob, notify).job
    /\ notify' = commitingBegin(commitJob, notify).nfy
    /\ call' = [call EXCEPT ![t].began = TRUE]
    /\ snapG' = privVal
    /\ pc' = [pc EXCEPT ![t] = "GC_check"]
    /\ seqG' = [seqG EXCEPT !.run[t] = commitJob'.commitNumber]
    /\ UNCHANGED <<lockVars, waitFor, privateMapBytes, n, auxVars, dbLocked, commitsInWriteLock, ab, durableG, ackG>>
    /\ UNCHANGED <<memVars, diskVars>>

\* mutant of GC_check: the test of hasWritten() is left out
GC_check_always(t) ==
    /\ Running
    /\ pc[t] = "GC_check"
    /\ pc' = [pc EXCEPT ![t] = "GC_prep"]
    /\ UNCHANGED <<call, lockVars, commitJob, notify, waitFor, privateMapBytes, n, seqG, auxVars, dbLocked,
                   commitsInWriteLock, ab>>
    /\ UNCHANGED <<memVars, diskVars, histVars>>

\* if( !commitJob.hasWritten() ) committingNotifyCommitted(); else { ... }
GC_check(t) ==
    /\ Running
    /\ pc[t] = "GC_check"
    /\ IF ~hasWritten
       THEN /\ notify' = committingNotifyCommitted(commitJob, notify)
            /\ pc' = [pc EXCEPT ![t] = "GC_unlock"]
       ELSE /\ pc' = [pc EXCEPT ![t] = "GC_prep"]
            /\ UNCHANGED notify
    /\ UNCHANGED <<call, lockVars, commitJob, waitFor, privateMapBytes, n, seqG, auxVars, dbLocked, commitsInWriteLock, ab>>
    /\ UNCHANGED <<memVars, diskVars, histVars>>

\* mutant of GC_prep: committingReset is called before PREPLOGBUFFER reads the intents
GC_prep_resetFirst(t) ==
    /\ Running
    /\ pc[t] = "GC_prep"
    /\ commitJob' = committingReset(commitJob)
    /\ privateMapBytes' = privateMapBytes + commitJob.bytes
    /\ ab' = {<<a, View(a)>> : a \in committingReset(commitJob).intents}
    /\ pc' = [pc EXCEPT ![t] = "GC_journal"]
    /\ UNCHANGED <<call, lockVars, notify, waitFor, n, seqG, auxVars, dbLocked, commitsInWriteLock>>
    /\ UNCHANGED <<memVars, diskVars, histVars>>

GC_prep(t) ==
    /\ Running
    /\ pc[t] = "GC_prep"
    /\ ab' = PREPLOGBUFFER(commitJob)
    /\ pc' = [pc EXCEPT ![t] = "GC_journal"]
    /\ UNCHANGED <<call, lockVars, commitJob, notify, waitFor, privateMapBytes, n, seqG, auxVars, dbLocked, commitsInWriteLock>>
    /\ UNCHANGED <<memVars, diskVars, histVars>>

\* mutant of GC_journal: the data files are written while the journal write is still
\* under way
GC_journal_dataEarly(t) ==
    /\ Running
    /\ pc[t] = "GC_journal"
    /\ journal' = Append(journal, [data |-> ab, complete |-> FALSE])
    /\ shared' = WRITETODATAFILES(ab)
    /\ written' = [a \in Addr |-> written[a] \cup {WRITETODATAFILES(ab)[a]}]
    /\ pc' = [pc EXCEPT ![t] = "GC_journalEnd"]
    /\ seqG' = [seqG EXCEPT !.journaled = seqG.run[t],
                             !.applied = seqG.run[t]]
    /\ UNCHANGED <<call, lockVars, commitJob, notify, waitFor, privateMapBytes, n, auxVars, dbLocked, commitsInWriteLock, ab>>
    /\ UNCHANGED <<cow, privVal, willNeedRemap, startAt, nwrites, disk, phase, histVars>>

GC_journal(t) ==
    /\ Running
    /\ pc[t] = "GC_journal"
    /\ journal' = Append(journal, [data |-> ab, complete |-> FALSE])
    /\ pc' = [pc EXCEPT ![t] = "GC_journalEnd"]
    /\ seqG' = [seqG EXCEPT !.journaled = seqG.run[t]]
    /\ UNCHANGED <<call, lockVars, commitJob, notify, waitFor, privateMapBytes, n, auxVars, dbLocked, commitsInWriteLock, ab>>
    /\ UNCHANGED <<memVars, disk, phase, histVars>>

GC_journalEnd(t) ==
    /\ Running
    /\ pc[t] = "GC_journalEnd"
    /\ journal' = [journal EXCEPT ![Len(journal)].complete = TRUE]
    /\ durableG' = snapG
    /\ pc' = [pc EXCEPT ![t] = "GC_notify"]
    /\ UNCHANGED <<call, lockVars, commitJob, notify, waitFor, privateMapBytes, n, seqG, auxVars, dbLocked, commitsInWriteLock, ab>>
    /\ UNCHANGED <<memVars, disk, phase, snapG, ackG>>

GC_notify(t) ==
    /\ Running
    /\ pc[t] = "GC_notify"
    /\ notify' = committingNotifyCommitted(commitJob, notify)
    /\ pc' = [pc EXCEPT ![t] = "GC_datafiles"]
    /\ UNCHANGED <<call, lockVars, commitJob, waitFor, privateMapBytes, n, seqG, auxVars, dbLocked, commitsInWriteLock, ab>>
    /\ UNCHANGED <<memVars, diskVars, histVars>>

GC_datafiles(t) ==
    /\ Running
    /\ pc[t] = "GC_datafiles"
    /\ shared' = WRITETODATAFILES(ab)
    /\ written' = [a \in Addr |-> written[a] \cup {WRITETODATAFILES(ab)[a]}]
    /\ willNeedRemap' = willNeedRemap \cup SectionAddrs(ab)
    /\ pc' = [pc EXCEPT ![t] = "GC_reset"]
    /\ seqG' = [seqG EXCEPT !.applied = seqG.run[t]]
    /\ UNCHANGED <<call, lockVars, commitJob, notify, waitFor, privateMapBytes, n, auxVars, dbLocked, commitsInWriteLock, ab>>
    /\ UNCHANGED <<cow, privVal, startAt, nwrites, diskVars, histVars>>

\* mutant of GC_reset: committingReset() is left out
GC_reset_omitted(t) ==
    /\ Running
    /\ pc[t] = "GC_reset"
    /\ pc' = [pc EXCEPT ![t] = "GC_abreset"]
    /\ UNCHANGED <<call, lockVars, commitJob, notify, waitFor, privateMapBytes, n, seqG, auxVars, dbLocked, commitsInWriteLock, ab>>
    /\ UNCHANGED <<memVars, diskVars, histVars>>

GC_reset(t) ==
    /\ Running
    /\ pc[t] = "GC_reset"
    /\ commitJob' = committingReset(commitJob)
    /\ privateMapBytes' = privateMapBytes + commitJob.bytes
    /\ pc' = [pc EXCEPT ![t] = "GC_abreset"]
    /\ UNCHANGED <<call, lockVars, notify, waitFor, n, seqG, auxVars, dbLocked, commitsInWriteLock, ab>>
    /\ UNCHANGED <<memVars, diskVars, histVars>>

\* mutant of GC_abreset: the builder is left as it is at the end of the cycle
GC_abreset_omitted(t) ==
    /\ Running
    /\ pc[t] = "GC_abreset"
    /\ pc' = [pc EXCEPT ![t] = "GC_unlock"]
    /\ UNCHANGED <<call, lockVars, commitJob, notify, waitFor, privateMapBytes, n, seqG, auxVars,
                   dbLocked, commitsInWriteLock, ab>>
    /\ UNCHANGED <<memVars, diskVars, histVars>>

GC_abreset(t) ==
    /\ Running
    /\ pc[t] = "GC_abreset"
    /\ ab' = {}
    /\ pc' = [pc EXCEPT ![t] = "GC_unlock"]
    /\ UNCHANGED <<call, lockVars, commitJob, notify, waitFor, privateMapBytes, n, seqG, auxVars, dbLocked, commitsInWriteLock>>
    /\ UNCHANGED <<memVars, diskVars, histVars>>

\* where _groupCommit continues once it returns from (or never ran) the remap
AfterGroupCommit(t) == IF t = DurThread THEN "DTGC_ret" ELSE "CN_ret"

\* mutant of GC_unlock: no thread upgrades, the remap is left to a caller in W
GC_unlock_noUpgrade(t) ==
    /\ Running
    /\ pc[t] = "GC_unlock"
    /\ groupCommitMutex' = IF groupCommitMutex = t THEN NoThread ELSE groupCommitMutex
    /\ pc' = [pc EXCEPT ![t] =
                 IF lockState[t] # "W" THEN AfterGroupCommit(t) ELSE "GC_remap"]
    /\ commitsInWriteLock' = IF lockState[t] = "W" THEN commitsInWriteLock + 1
                                                  ELSE commitsInWriteLock
    /\ UNCHANGED <<call, lockState, mmmutex, commitJob, notify, waitFor,
                   privateMapBytes, n, seqG, auxVars, dbLocked, ab>>
    /\ UNCHANGED <<memVars, diskVars, histVars>>

\* mutant of GC_unlock: _commitsInWriteLock is counted for every cycle
GC_unlock_countsAll(t) ==
    /\ Running
    /\ pc[t] = "GC_unlock"
    /\ groupCommitMutex' = IF groupCommitMutex = t THEN NoThread ELSE groupCommitMutex
    /\ pc' = [pc EXCEPT ![t] =
                 IF lockState[t] # "W"
                 THEN IF call[t].lgw THEN "GC_upgrade" ELSE AfterGroupCommit(t)
                 ELSE "GC_remap"]
    /\ commitsInWriteLock' = commitsInWriteLock + 1
    /\ UNCHANGED <<call, lockState, mmmutex, commitJob, notify, waitFor,
                   privateMapBytes, n, seqG, auxVars, dbLocked, ab>>
    /\ UNCHANGED <<memVars, diskVars, histVars>>

\* mutant of GC_unlock: every thread that is not in W goes for the upgrade
GC_unlock_anyUpgrade(t) ==
    /\ Running
    /\ pc[t] = "GC_unlock"
    /\ groupCommitMutex' = IF groupCommitMutex = t THEN NoThread ELSE groupCommitMutex
    /\ pc' = [pc EXCEPT ![t] = IF lockState[t] # "W" THEN "GC_upgrade" ELSE "GC_remap"]
    /\ commitsInWriteLock' = IF lockState[t] = "W" THEN commitsInWriteLock + 1
                                                  ELSE commitsInWriteLock
    /\ seqG' = [seqG EXCEPT !.run[t] = 0]
    /\ UNCHANGED <<call, lockState, mmmutex, commitJob, notify, waitFor,
                   privateMapBytes, n, auxVars, dbLocked, ab>>
    /\ UNCHANGED <<memVars, diskVars, histVars>>

\* end of the scope of lk; then the choice of the REMAPPRIVATEVIEW block:
\* not in W: upgrade and remap if lgw is set, else nothing; in W:
\* stats.curr->_commitsInWriteLock++ and remap now
GC_unlock(t) ==
    /\ Running
    /\ pc[t] = "GC_unlock"
    /\ groupCommitMutex' = IF groupCommitMutex = t THEN NoThread ELSE groupCommitMutex
    /\ pc' = [pc EXCEPT ![t] =
                 IF lockState[t] # "W"
                 THEN IF call[t].lgw THEN "GC_upgrade" ELSE AfterGroupCommit(t)
                 ELSE "GC_remap"]
    /\ commitsInWriteLock' = IF lockState[t] = "W" THEN commitsInWriteLock + 1
                                                  ELSE commitsInWriteLock
    /\ seqG' = [seqG EXCEPT !.run[t] = 0]
    /\ UNCHANGED <<call, lockState, mmmutex, commitJob, notify, waitFor,
                   privateMapBytes, n, auxVars, dbLocked, ab>>
    /\ UNCHANGED <<memVars, diskVars, histVars>>

\* mutant of GC_upgrade: the read lock is given up and the write lock taken afresh
GC_upgrade_release(t) ==
    /\ Running
    /\ pc[t] = "GC_upgrade"
    /\ IF lockState[t] = "R"
       THEN /\ lockState' = [lockState EXCEPT ![t] = "none"]
            /\ UNCHANGED <<pc, call>>
       ELSE /\ Compatible(t, "W")
            /\ lockState' = [lockState EXCEPT ![t] = "W"]
            /\ call' = [call EXCEPT ![t].upgraded = TRUE]
            /\ pc' = [pc EXCEPT ![t] = "GC_remap"]
    /\ UNCHANGED <<groupCommitMutex, mmmutex, commitJob, notify, waitFor,
                   privateMapBytes, n, seqG, auxVars, dbLocked, commitsInWriteLock, ab>>
    /\ UNCHANGED <<memVars, diskVars, histVars>>

\* mutant of GC_upgrade: the upgrade does not wait for the other threads' locks
GC_upgrade_noWait(t) ==
    /\ Running
    /\ pc[t] = "GC_upgrade"
    /\ lockState' = [lockState EXCEPT ![t] = "W"]
    /\ call' = [call EXCEPT ![t].upgraded = TRUE]
    /\ pc' = [pc EXCEPT ![t] = "GC_remap"]
    /\ UNCHANGED <<groupCommitMutex, mmmutex, commitJob, notify, waitFor,
                   privateMapBytes, n, seqG, auxVars, dbLocked, commitsInWriteLock, ab>>
    /\ UNCHANGED <<memVars, diskVars, histVars>>

\* lgw->upgrade(): R to W; the thread keeps R until it is the only holder
GC_upgrade(t) ==
    /\ Running
    /\ pc[t] = "GC_upgrade"
    /\ Compatible(t, "W")
    /\ lockState' = [lockState EXCEPT ![t] = "W"]
    /\ call' = [call EXCEPT ![t].upgraded = TRUE]
    /\ pc' = [pc EXCEPT ![t] = "GC_remap"]
    /\ UNCHANGED <<groupCommitMutex, mmmutex, commitJob, notify, waitFor,
                   privateMapBytes, n, seqG, auxVars, dbLocked, commitsInWriteLock, ab>>
    /\ UNCHANGED <<memVars, diskVars, histVars>>

\* ---- _REMAPPRIVATEVIEW
\* the ntodo files of the sweep that starts at index s (0-based, cyclic)
SweepFiles(s, ntodo) == {Files[((s + x) % Len(Files)) + 1] : x \in 0 .. (ntodo - 1)}

\* the least ntodo the memory pressure allows: sz * privateMapBytes / limit, in 1..sz
MinTodo ==
    LET f == (Len(Files) * privateMapBytes) \div UncommittedBytesLimit
    IN  IF f < 1 THEN 1 ELSE IF f > Len(Files) THEN Len(Files) ELSE f

GC_remap(t) ==
    /\ Running
    /\ pc[t] = "GC_remap"
    /\ IF lockState[t] # "W" \/ hasWritten
       THEN Died      \* invariant(isW()); invariant(!commitJob.hasWritten())
       ELSE /\ \E ntodo \in MinTodo .. Len(Files) :
                 /\ startAt' = (startAt + ntodo) % Len(Files)
                 /\ cow' = cow \ (SweepFiles(startAt, ntodo) \cap willNeedRemap)
                 /\ willNeedRemap' = willNeedRemap \ SweepFiles(startAt, ntodo)
            /\ privateMapBytes' = 0
            /\ pc' = [pc EXCEPT ![t] = AfterGroupCommit(t)]
            /\ UNCHANGED <<call, lockVars, commitJob, notify, waitFor, n, seqG, auxVars, dbLocked, commitsInWriteLock, ab>>
            /\ UNCHANGED <<shared, written, privVal, nwrites, diskVars, histVars>>

\* durThreadGroupCommit returns: ~GlobalWrite releases the global lock
DTGC_ret(t) ==
    /\ Running
    /\ pc[t] = "DTGC_ret"
    /\ lockState' = [lockState EXCEPT ![t] = "none"]
    /\ call' = [call EXCEPT ![t] = NoCall]
    /\ pc' = [pc EXCEPT ![t] = "sleep"]
    /\ UNCHANGED <<groupCommitMutex, mmmutex, commitJob, notify, waitFor,
                   privateMapBytes, n, seqG, auxVars, dbLocked, commitsInWriteLock, ab>>
    /\ UNCHANGED <<memVars, diskVars, histVars>>


\* ------------------------------------------------------------- forced (early) commit
\* mutant of commitIfNeeded: in 'W'/'R' commitNow returns true without groupCommit
commitIfNeeded_noCommit(t, force) ==
    /\ Running
    /\ t \in Fg
    /\ pc[t] = "idle"
    /\ EpochLeft(Pending + 1)
    /\ IF bytes < UncommittedBytesLimit /\ ~force
       THEN UNCHANGED <<pc, call>>
       ELSE /\ call' = [call EXCEPT ![t] =
                          [NoCall EXCEPT !.entry = lockState[t],
                                         !.need = (bytes >= UncommittedBytesLimit)]]
            /\ pc' = [pc EXCEPT ![t] =
                        CASE lockState[t] = "none" -> "ACN_lockR"
                          [] lockState[t] = "r" -> "CN_declined"
                          [] lockState[t] = "w" ->
                                IF dbLocked[t] \in {"local", "admin"}
                                THEN "CN_declined" ELSE "ACN_upgrade"
                          [] OTHER -> "CN_ret"]
    /\ UNCHANGED <<lockVars, commitJob, notify, waitFor, privateMapBytes, n, seqG, auxVars, dbLocked, commitsInWriteLock, ab>>
    /\ UNCHANGED <<memVars, diskVars, histVars>>

\* mutant of commitIfNeeded: case 'w' does not look at the local and admin databases
commitIfNeeded_anyDb(t, force) ==
    /\ Running
    /\ t \in Fg
    /\ pc[t] = "idle"
    /\ EpochLeft(Pending + 1)
    /\ IF bytes < UncommittedBytesLimit /\ ~force
       THEN UNCHANGED <<pc, call>>
       ELSE /\ call' = [call EXCEPT ![t] =
                          [NoCall EXCEPT !.entry = lockState[t],
                                         !.need = (bytes >= UncommittedBytesLimit)]]
            /\ pc' = [pc EXCEPT ![t] =
                        CASE lockState[t] = "none" -> "ACN_lockR"
                          [] lockState[t] = "r" -> "CN_declined"
                          [] lockState[t] = "w" -> "ACN_upgrade"
                          [] OTHER -> "GC_mutex"]
    /\ UNCHANGED <<lockVars, commitJob, notify, waitFor, privateMapBytes, n, seqG, auxVars, dbLocked,
                   commitsInWriteLock, ab>>
    /\ UNCHANGED <<memVars, diskVars, histVars>>

\* DurableImpl::commitIfNeeded(txn, force) up to the switch of _aCommitIsNeeded:
\* below the limit and not forced it returns false at once; case 'r' returns false;
\* case 'W'/'R' calls commitNow; case '\0' goes for the global read lock; case 'w'
\* returns false when the local or the admin database is locked and else goes for
\* the upgrade
\* DurableImpl::isCommitNeeded: return commitJob.bytes() > UncommittedBytesLimit
isCommitNeeded == bytes > UncommittedBytesLimit

\* the test at the head of DurableImpl::commitIfNeeded:
\* if( likely( commitJob.bytes() < UncommittedBytesLimit && !force ) ) return false
returnsAtOnce(force) == bytes < UncommittedBytesLimit /\ ~force

commitIfNeeded(t, force) ==
    /\ Running
    /\ t \in Fg
    /\ pc[t] = "idle"
    /\ EpochLeft(Pending + 1)
    /\ IF returnsAtOnce(force)
       THEN UNCHANGED <<pc, call>>
       ELSE /\ call' = [call EXCEPT ![t] =
                          [NoCall EXCEPT !.entry = lockState[t],
                                         !.need = (bytes >= UncommittedBytesLimit)]]
            /\ pc' = [pc EXCEPT ![t] =
                        CASE lockState[t] = "none" -> "ACN_lockR"
                          [] lockState[t] = "r" -> "CN_declined"
                          [] lockState[t] = "w" ->
                                IF dbLocked[t] \in {"local", "admin"}
                                THEN "CN_declined" ELSE "ACN_upgrade"
                          [] OTHER -> "GC_mutex"]
    /\ UNCHANGED <<lockVars, commitJob, notify, waitFor, privateMapBytes, n, seqG, auxVars, dbLocked, commitsInWriteLock, ab>>
    /\ UNCHANGED <<memVars, diskVars, histVars>>

\* mutant of ACN_lockR: the re-check is made without the global read lock
ACN_lockR_notTaken(t) ==
    /\ Running
    /\ pc[t] = "ACN_lockR"
    /\ pc' = [pc EXCEPT ![t] = "ACN_recheck"]
    /\ UNCHANGED <<call, lockVars, commitJob, notify, waitFor, privateMapBytes, n, seqG, auxVars, dbLocked,
                   commitsInWriteLock, ab>>
    /\ UNCHANGED <<memVars, diskVars, histVars>>

\* case '\0': Lock::GlobalRead r(txn->lockState())
ACN_lockR(t) ==
    /\ Running
    /\ pc[t] = "ACN_lockR"
    /\ Compatible(t, "R")
    /\ lockState' = [lockState EXCEPT ![t] = "R"]
    /\ pc' = [pc EXCEPT ![t] = "ACN_recheck"]
    /\ UNCHANGED <<call, groupCommitMutex, mmmutex, commitJob, notify, waitFor,
                   privateMapBytes, n, seqG, auxVars, dbLocked, commitsInWriteLock, ab>>
    /\ UNCHANGED <<memVars, diskVars, histVars>>

\* if( commitJob.bytes() < UncommittedBytesLimit ) return false; commitNow(txn);
ACN_recheck(t) ==
    /\ Running
    /\ pc[t] = "ACN_recheck"
    /\ pc' = [pc EXCEPT ![t] = IF bytes < UncommittedBytesLimit
                               THEN "CN_retFalse" ELSE "GC_mutex"]
    /\ UNCHANGED <<call, lockVars, commitJob, notify, waitFor, privateMapBytes, n, seqG, auxVars, dbLocked, commitsInWriteLock, ab>>
    /\ UNCHANGED <<memVars, diskVars, histVars>>

\* mutant of ACN_upgrade: commitNow is called whether or not the upgrade was got
ACN_upgrade_unchecked(t) ==
    /\ Running
    /\ pc[t] = "ACN_upgrade"
    /\ IF Compatible(t, "W")
       THEN /\ lockState' = [lockState EXCEPT ![t] = "W"]
            /\ call' = [call EXCEPT ![t].upgraded = TRUE]
       ELSE UNCHANGED <<lockState, call>>
    /\ pc' = [pc EXCEPT ![t] = "GC_mutex"]
    /\ UNCHANGED <<groupCommitMutex, mmmutex, commitJob, notify, waitFor,
                   privateMapBytes, n, seqG, auxVars, dbLocked, commitsInWriteLock, ab>>
    /\ UNCHANGED <<memVars, diskVars, histVars>>

\* case 'w': Lock::UpgradeGlobalLockToExclusive ex; if (ex.gotUpgrade()) commitNow(txn);
\* return true.  The upgrade is got when every other thread is out of the lock, and
\* given up (it waits a bounded time) while some thread stays in
ACN_upgrade(t) ==
    /\ Running
    /\ pc[t] = "ACN_upgrade"
    /\ IF Compatible(t, "W")
       THEN /\ lockState' = [lockState EXCEPT ![t] = "W"]
            /\ call' = [call EXCEPT ![t].upgraded = TRUE]
            /\ pc' = [pc EXCEPT ![t] = "GC_mutex"]
       ELSE /\ pc' = [pc EXCEPT ![t] = "CN_ret"]
            /\ UNCHANGED <<lockState, call>>
    /\ UNCHANGED <<groupCommitMutex, mmmutex, commitJob, notify, waitFor,
                   privateMapBytes, n, seqG, auxVars, dbLocked, commitsInWriteLock, ab>>
    /\ UNCHANGED <<memVars, diskVars, histVars>>

\* return from _aCommitIsNeeded / commitIfNeeded (true at "CN_ret", false at
\* "CN_retFalse" and at "CN_declined"): the scoped GlobalRead or
\* UpgradeGlobalLockToExclusive is undone
commitIfNeededReturn(t) ==
    /\ Running
    /\ pc[t] \in {"CN_ret", "CN_retFalse", "CN_declined"}
    /\ lockState' = [lockState EXCEPT ![t] = call[t].entry]
    /\ call' = [call EXCEPT ![t] = NoCall]
    /\ pc' = [pc EXCEPT ![t] = "idle"]
    /\ UNCHANGED <<groupCommitMutex, mmmutex, commitJob, notify, waitFor,
                   privateMapBytes, n, seqG, auxVars, dbLocked, commitsInWriteLock, ab>>
    /\ UNCHANGED <<memVars, diskVars, histVars>>

\* ------------------------------------------------------------- acknowledgement
\* DurableImpl::awaitCommit -> NotifyAll::awaitBeyondNow: e = ++_lastReturned, then
\* wait while _lastDone <= e
awaitCommit(t) ==
    /\ Running
    /\ t \in Fg
    /\ pc[t] = "idle"
    /\ lockState[t] = "none"
    /\ EpochLeft(Pending + 2)    \* one for this call, one for a commit cycle after it
    /\ notify' = [notify EXCEPT !.lastReturned = @ + 1, !.nWaiting = @ + 1]
    /\ waitFor' = [waitFor EXCEPT ![t] = notify.lastReturned + 1]
    /\ ackG' = [ackG EXCEPT ![t] = privVal]
    /\ pc' = [pc EXCEPT ![t] = "await"]
    /\ UNCHANGED <<call, lockVars, commitJob, privateMapBytes, n, seqG, auxVars, dbLocked, commitsInWriteLock, ab>>
    /\ UNCHANGED <<memVars, diskVars, snapG, durableG>>

awaitCommitReturn(t) ==
    /\ Running
    /\ pc[t] = "await"
    /\ notify.lastDone > waitFor[t]
    /\ waitFor' = [waitFor EXCEPT ![t] = 0]
    /\ ackG' = [ackG EXCEPT ![t] = ZeroMem]
    /\ pc' = [pc EXCEPT ![t] = "idle"]
    /\ UNCHANGED <<call, lockVars, commitJob, notify, privateMapBytes, n, seqG, auxVars, dbLocked, commitsInWriteLock, ab>>
    /\ UNCHANGED <<memVars, diskVars, snapG, durableG>>

\* ---- exceptions
\* where an exception is caught by a handler that ends in mongoAbort: inside
\* groupCommitWithLimitedLocks, inside groupCommit, and, for the background thread,
\* anywhere in the iteration of durThread's loop
TryBlock(t) ==
    {"LL_lockR", "LL_mutex", "LL_begin", "LL_check", "LL_prep", "LL_lk3", "LL_reset",
     "LL_unlockR", "LL_journal", "LL_journalEnd", "LL_notify", "LL_datafiles",
     "LL_abreset",
     "GC_mutex", "GC_begin", "GC_check", "GC_prep", "GC_journal", "GC_journalEnd",
     "GC_notify", "GC_datafiles", "GC_reset", "GC_abreset", "GC_unlock", "GC_upgrade",
     "GC_remap"}
    \cup (IF t = DurThread THEN {"sleep", "FL_lockW", "FL_downgrade", "DTGC_ret"} ELSE {})

\* mutant of Throw: the handler returns instead of aborting; the scoped locks of the
\* commit function are gone with its frame, groupCommitWithLimitedLocks returns false
\* and durThreadGroupCommit goes on to the full-lock path, groupCommit returns to
\* its caller
Throw_returns(t) ==
    /\ Running
    /\ pc[t] \in TryBlock(t) \ {"sleep", "FL_lockW", "FL_downgrade", "DTGC_ret"}
    /\ groupCommitMutex' = IF groupCommitMutex = t THEN NoThread ELSE groupCommitMutex
    /\ mmmutex' = mmmutex \ {t}
    /\ IF pc[t] \in {"LL_lockR", "LL_mutex", "LL_begin", "LL_check", "LL_prep", "LL_lk3",
                     "LL_reset", "LL_unlockR", "LL_journal", "LL_journalEnd",
                     "LL_notify", "LL_datafiles", "LL_abreset"}
       THEN /\ lockState' = [lockState EXCEPT ![t] = "none"]
            /\ call' = [call EXCEPT ![t] = [NoCall EXCEPT !.lgw = TRUE]]
            /\ pc' = [pc EXCEPT ![t] = "FL_lockW"]
       ELSE /\ pc' = [pc EXCEPT ![t] = IF t = DurThread THEN "DTGC_ret" ELSE "CN_ret"]
            /\ UNCHANGED <<lockState, call>>
    /\ UNCHANGED <<commitJob, notify, waitFor, privateMapBytes, n, seqG, auxVars,
                   dbLocked, commitsInWriteLock, ab>>
    /\ UNCHANGED <<memVars, diskVars, histVars>>

\* an exception (DBException, ios_base::failure, bad_alloc, std::exception) raised in a
\* commit cycle or in the background thread's iteration: the handler logs and calls
\* mongoAbort
Throw(t) ==
    /\ Running
    /\ pc[t] \in TryBlock(t)
    /\ Died

\* ------------------------------------------------------------- specification
Next ==
    \/ \E t \in Fg, m \in {"r", "w", "R", "W"} : FgLock(t, m)
    \/ \E t \in Fg : FgUnlock(t)
    \/ \E t \in Fg, a \in Addr : Write(t, a)
    \/ \E t \in Callers, force \in BOOLEAN : commitIfNeeded(t, force)
    \/ \E t \in Callers : ACN_lockR(t)
    \/ \E t \in Callers : ACN_recheck(t)
    \/ \E t \in Callers : ACN_upgrade(t)
    \/ \E t \in Callers : commitIfNeededReturn(t)
    \/ \E t \in Callers : awaitCommit(t)
    \/ \E t \in Callers : awaitCommitReturn(t)
    \/ durThreadGroupCommit(DurThread)
    \/ LL_lockR(DurThread)
    \/ LL_mutex(DurThread)
    \/ LL_begin(DurThread)
    \/ LL_check(DurThread)
    \/ LL_prep(DurThread)
    \/ LL_lk3(DurThread)
    \/ LL_reset(DurThread)
    \/ LL_unlockR(DurThread)
    \/ LL_journal(DurThread)
    \/ LL_journalEnd(DurThread)
    \/ LL_notify(DurThread)
    \/ LL_datafiles(DurThread)
    \/ LL_abreset(DurThread)
    \/ FL_lockW(DurThread)
    \/ FL_downgrade(DurThread)
    \/ \E t \in Threads : GC_mutex(t)
    \/ \E t \in Threads : GC_begin(t)
    \/ \E t \in Threads : GC_check(t)
    \/ \E t \in Threads : GC_prep(t)
    \/ \E t \in Threads : GC_journal(t)
    \/ \E t \in Threads : GC_journalEnd(t)
    \/ \E t \in Threads : GC_notify(t)
    \/ \E t \in Threads : GC_datafiles(t)
    \/ \E t \in Threads : GC_reset(t)
    \/ \E t \in Threads : GC_abreset(t)
    \/ \E t \in Threads : GC_unlock(t)
    \/ GC_upgrade(DurThread)
    \/ \E t \in Threads : GC_remap(t)
    \/ DTGC_ret(DurThread)
    \/ \E t \in Threads : Throw(t)
    \/ Crash
    \/ Recover

Spec == Init /\ [][Next]_vars


\* ------------------------------------------------------------- racing early commits
\* every foreground thread writes under 'w' and calls commitIfNeeded, unlocked or in
\* 'w', next to the background thread; the process does not die
RaceNext ==
    \/ \E t \in Fg : FgLock(t, "w")
    \/ \E t \in Fg : FgUnlock(t)
    \/ \E t \in Fg, a \in Addr : Write(t, a)
    \/ \E t \in Fg : commitIfNeeded(t, FALSE)
    \/ \E t \in Fg : ACN_lockR(t)
    \/ \E t \in Fg : ACN_recheck(t)
    \/ \E t \in Fg : ACN_upgrade(t)
    \/ \E t \in Fg : commitIfNeededReturn(t)
    \/ durThreadGroupCommit(DurThread)
    \/ LL_lockR(DurThread)
    \/ LL_mutex(DurThread)
    \/ LL_begin(DurThread)
    \/ LL_check(DurThread)
    \/ LL_prep(DurThread)
    \/ LL_lk3(DurThread)
    \/ LL_reset(DurThread)
    \/ LL_unlockR(DurThread)
    \/ LL_journal(DurThread)
    \/ LL_journalEnd(DurThread)
    \/ LL_notify(DurThread)
    \/ LL_datafiles(DurThread)
    \/ LL_abreset(DurThread)
    \/ FL_lockW(DurThread)
    \/ FL_downgrade(DurThread)
    \/ \E t \in Threads : GC_mutex(t)
    \/ \E t \in Threads : GC_begin(t)
    \/ \E t \in Threads : GC_check(t)
    \/ \E t \in Threads : GC_prep(t)
    \/ \E t \in Threads : GC_journal(t)
    \/ \E t \in Threads : GC_journalEnd(t)
    \/ \E t \in Threads : GC_notify(t)
    \/ \E t \in Threads : GC_datafiles(t)
    \/ \E t \in Threads : GC_reset(t)
    \/ \E t \in Threads : GC_abreset(t)
    \/ \E t \in Threads : GC_unlock(t)
    \/ GC_upgrade(DurThread)
    \/ \E t \in Threads : GC_remap(t)
    \/ DTGC_ret(DurThread)

RaceSpec == Init /\ [][RaceNext]_vars

\* ------------------------------------------------------------- liveness
\* the background thread waits for the global lock or for the commit mutex
DurLockStep ==
    \/ LL_lockR(DurThread)
    \/ LL_mutex(DurThread)
    \/ FL_lockW(DurThread)
    \/ GC_mutex(DurThread)
    \/ GC_upgrade(DurThread)

\* every other step of the background thread
DurRunStep ==
    \/ durThreadGroupCommit(DurThread)
    \/ LL_begin(DurThread)
    \/ LL_check(DurThread)
    \/ LL_prep(DurThread)
    \/ LL_lk3(DurThread)
    \/ LL_reset(DurThread)
    \/ LL_unlockR(DurThread)
    \/ LL_journal(DurThread)
    \/ LL_journalEnd(DurThread)
    \/ LL_notify(DurThread)
    \/ LL_datafiles(DurThread)
    \/ LL_abreset(DurThread)
    \/ FL_downgrade(DurThread)
    \/ GC_begin(DurThread)
    \/ GC_check(DurThread)
    \/ GC_prep(DurThread)
    \/ GC_journal(DurThread)
    \/ GC_journalEnd(DurThread)
    \/ GC_notify(DurThread)
    \/ GC_datafiles(DurThread)
    \/ GC_reset(DurThread)
    \/ GC_abreset(DurThread)
    \/ GC_unlock(DurThread)
    \/ GC_remap(DurThread)
    \/ DTGC_ret(DurThread)

\* the steps of Next, with commitIfNeeded called without force (an early commit
\* runs when bytes() has reached the limit)
LiveNext ==
    \/ \E t \in Fg, m \in {"r", "w", "R", "W"} : FgLock(t, m)
    \/ \E t \in Fg : FgUnlock(t)
    \/ \E t \in Fg, a \in Addr : Write(t, a)
    \/ \E t \in Callers : commitIfNeeded(t, FALSE)
    \/ \E t \in Callers : ACN_lockR(t)
    \/ \E t \in Callers : ACN_recheck(t)
    \/ \E t \in Callers : ACN_upgrade(t)
    \/ \E t \in Callers : commitIfNeededReturn(t)
    \/ \E t \in Callers : awaitCommit(t)
    \/ \E t \in Callers : awaitCommitReturn(t)
    \/ durThreadGroupCommit(DurThread)
    \/ LL_lockR(DurThread)
    \/ LL_mutex(DurThread)
    \/ LL_begin(DurThread)
    \/ LL_check(DurThread)
    \/ LL_prep(DurThread)
    \/ LL_lk3(DurThread)
    \/ LL_reset(DurThread)
    \/ LL_unlockR(DurThread)
    \/ LL_journal(DurThread)
    \/ LL_journalEnd(DurThread)
    \/ LL_notify(DurThread)
    \/ LL_datafiles(DurThread)
    \/ LL_abreset(DurThread)
    \/ FL_lockW(DurThread)
    \/ FL_downgrade(DurThread)
    \/ \E t \in Threads : GC_mutex(t)
    \/ \E t \in Threads : GC_begin(t)
    \/ \E t \in Threads : GC_check(t)
    \/ \E t \in Threads : GC_prep(t)
    \/ \E t \in Threads : GC_journal(t)
    \/ \E t \in Threads : GC_journalEnd(t)
    \/ \E t \in Threads : GC_notify(t)
    \/ \E t \in Threads : GC_datafiles(t)
    \/ \E t \in Threads : GC_reset(t)
    \/ \E t \in Threads : GC_abreset(t)
    \/ \E t \in Threads : GC_unlock(t)
    \/ GC_upgrade(DurThread)
    \/ \E t \in Threads : GC_remap(t)
    \/ DTGC_ret(DurThread)
    \/ Crash
    \/ Recover

\* the background thread keeps running, it gets a lock that is free again and again,
\* foreground operations give their lock back, and a notified waiter wakes up
LiveSpec ==
    /\ Init /\ [][LiveNext]_vars
    /\ WF_vars(DurRunStep)
    /\ SF_vars(DurLockStep)
    /\ \A t \in Fg : WF_vars(FgUnlock(t))
    /\ \A t \in Callers : WF_vars(awaitCommitReturn(t))

\* ------------------------------------------------------------- fair scheduling
\* The background thread, the writers and the early commits of LiveSpec, with a lock
\* manager that does not let a new request overtake a waiting one and with every
\* thread scheduled fairly.

\* the mode of the global lock a thread is blocked for
Wanted(t) ==
    CASE pc[t] \in {"LL_lockR", "ACN_lockR"} -> "R"
      [] pc[t] \in {"FL_lockW", "GC_upgrade"} -> "W"
      [] OTHER -> "none"

\* a foreground operation takes the global lock unless a thread already waits for a
\* mode this one conflicts with
FgLockQueued(t, m) ==
    /\ \A u \in Others(t) :
          CASE Wanted(u) = "R" -> m \in {"r", "R"}
            [] Wanted(u) = "W" -> FALSE
            [] OTHER -> TRUE
    /\ FgLock(t, m)

FairNext ==
    \/ \E t \in Fg, m \in {"r", "w", "R", "W"} : FgLockQueued(t, m)
    \/ \E t \in Fg : FgUnlock(t)
    \/ \E t \in Fg, a \in Addr : Write(t, a)
    \/ \E t \in Callers : commitIfNeeded(t, FALSE)
    \/ \E t \in Callers : ACN_lockR(t)
    \/ \E t \in Callers : ACN_recheck(t)
    \/ \E t \in Callers : ACN_upgrade(t)
    \/ \E t \in Callers : commitIfNeededReturn(t)
    \/ durThreadGroupCommit(DurThread)
    \/ LL_lockR(DurThread)
    \/ LL_mutex(DurThread)
    \/ LL_begin(DurThread)
    \/ LL_check(DurThread)
    \/ LL_prep(DurThread)
    \/ LL_lk3(DurThread)
    \/ LL_reset(DurThread)
    \/ LL_unlockR(DurThread)
    \/ LL_journal(DurThread)
    \/ LL_journalEnd(DurThread)
    \/ LL_notify(DurThread)
    \/ LL_datafiles(DurThread)
    \/ LL_abreset(DurThread)
    \/ FL_lockW(DurThread)
    \/ FL_downgrade(DurThread)
    \/ \E t \in Threads : GC_mutex(t)
    \/ \E t \in Threads : GC_begin(t)
    \/ \E t \in Threads : GC_check(t)
    \/ \E t \in Threads : GC_prep(t)
    \/ \E t \in Threads : GC_journal(t)
    \/ \E t \in Threads : GC_journalEnd(t)
    \/ \E t \in Threads : GC_notify(t)
    \/ \E t \in Threads : GC_datafiles(t)
    \/ \E t \in Threads : GC_reset(t)
    \/ \E t \in Threads : GC_abreset(t)
    \/ \E t \in Threads : GC_unlock(t)
    \/ GC_upgrade(DurThread)
    \/ \E t \in Threads : GC_remap(t)
    \/ DTGC_ret(DurThread)

\* a foreground thread blocked for the global read lock or for the commit mutex
FgLockStep(t) ==
    \/ ACN_lockR(t)
    \/ GC_mutex(t)

\* every other step of a foreground thread inside commitIfNeeded
FgRunStep(t) ==
    \/ ACN_recheck(t)
    \/ ACN_upgrade(t)
    \/ commitIfNeededReturn(t)
    \/ GC_begin(t)
    \/ GC_check(t)
    \/ GC_prep(t)
    \/ GC_journal(t)
    \/ GC_journalEnd(t)
    \/ GC_notify(t)
    \/ GC_datafiles(t)
    \/ GC_reset(t)
    \/ GC_abreset(t)
    \/ GC_unlock(t)
    \/ GC_remap(t)

\* every thread keeps running, a thread blocked for a lock that is free again and
\* again gets it, and a foreground operation ends and gives its lock back
FairSpec ==
    /\ Init /\ [][FairNext]_vars
    /\ WF_vars(DurRunStep)
    /\ SF_vars(DurLockStep)
    /\ \A t \in Fg : SF_vars(FgUnlock(t))
    /\ \A t \in Callers : WF_vars(FgRunStep(t))
    /\ \A t \in Callers : SF_vars(FgLockStep(t))

\* ------------------------------------------------------------- remap cadence
\* The background thread alone, over many cycles, with each commit cycle taken as one
\* step: what a cycle leaves behind for the next choice is privateMapBytes only.

\* groupCommitWithLimitedLocks ran to its end and returned true: no remap; the bytes
\* the cycle committed stay in the private views
LimitedLocksCycle(t) ==
    /\ Running
    /\ t = DurThread
    /\ pc[t] = "LL_lockR"
    /\ Len(modeG) < MaxCycles
    /\ \E b \in 0 .. 1 : privateMapBytes' = privateMapBytes + b
    /\ modeG' = Append(modeG, [path |-> "limited", remap |-> FALSE,
                               below |-> privateMapBytes < UncommittedBytesLimit])
    /\ call' = [call EXCEPT ![t] = NoCall]
    /\ pc' = [pc EXCEPT ![t] = "sleep"]
    /\ UNCHANGED <<lockVars, commitJob, notify, waitFor, n, ab, dbLocked,
                   commitsInWriteLock, seqG, durOptions, allFiles, sweepG, slept,
                   numExitCalls,
                   startupG>>
    /\ UNCHANGED <<memVars, diskVars, histVars>>

\* Lock::GlobalWrite w; w.downgrade(); groupCommit(&txn, &w) ran to its end: the
\* lock was upgraded and _REMAPPRIVATEVIEW reset privateMapBytes
FullLockCycle(t) ==
    /\ Running
    /\ t = DurThread
    /\ pc[t] = "FL_lockW"
    /\ Len(modeG) < MaxCycles
    /\ privateMapBytes' = 0
    /\ modeG' = Append(modeG, [path |-> "full", remap |-> TRUE,
                               below |-> privateMapBytes < UncommittedBytesLimit])
    /\ call' = [call EXCEPT ![t] = NoCall]
    /\ pc' = [pc EXCEPT ![t] = "sleep"]
    /\ UNCHANGED <<lockVars, commitJob, notify, waitFor, n, ab, dbLocked,
                   commitsInWriteLock, seqG, durOptions, allFiles, sweepG, slept,
                   numExitCalls,
                   startupG>>
    /\ UNCHANGED <<memVars, diskVars, histVars>>

CadenceInit ==
    /\ CoreInit
    /\ OneFile
    /\ LoopTop
    /\ durOptions \in {{}, {"DurAlwaysRemap"}}
    /\ modeG = <<>>

CadenceNext ==
    \/ durThreadGroupCommit(DurThread)
    \/ LimitedLocksCycle(DurThread)
    \/ FullLockCycle(DurThread)

CadenceSpec == CadenceInit /\ [][CadenceNext]_vars

\* ------------------------------------------------------------- remap sweep
\* _REMAPPRIVATEVIEW alone, called again and again on a set of files of both kinds.

\* the loop of dur.cpp 535-546: `left' iterations to go, the iterator at index i
\* (from 0); the iterator advances only past a DurableMappedFile
RECURSIVE Examine(_, _, _, _)
Examine(fs, i, left, seen) ==
    IF left = 0
    THEN seen
    ELSE Examine(fs, IF fs[i + 1] = "durable" THEN (i + 1) % Len(fs) ELSE i,
                 left - 1, seen \cup {i})

\* ntodo = (unsigned) (sz * fraction), at least 1 and at most sz; fraction is the
\* elapsed time over 2 s (e = the whole files that part of the set amounts to), 1 with
\* DurAlwaysRemap, and not less than privateMapBytes / UncommittedBytesLimit
Ntodo(sz, e, pmb, opts) ==
    LET t == IF "DurAlwaysRemap" \in opts THEN sz ELSE e
        f == (sz * pmb) \div UncommittedBytesLimit
        m == IF f > t THEN f ELSE t
    IN  IF m < 1 THEN 1 ELSE IF m > sz THEN sz ELSE m

\* mutant of RemapResult: the counter is left alone
RemapResult_keepsBytes(e) ==
    LET sz == Len(allFiles)
        ntodo == Ntodo(sz, e, privateMapBytes, durOptions)
        ex == Examine(allFiles, startAt % sz, ntodo, {})
    IN  IF sz = 0
        THEN [bytes |-> privateMapBytes, startAt |-> startAt,
              sweep |-> [sweepG EXCEPT !.count = @ + 1, !.from = startAt, !.todo = 0,
                                       !.bytes = privateMapBytes, !.examined = {}]]
        ELSE [bytes |-> privateMapBytes, startAt |-> (startAt + ntodo) % sz,
              sweep |-> [count |-> sweepG.count + 1, from |-> startAt % sz,
                         todo |-> ntodo, bytes |-> privateMapBytes,
                         examined |-> ex, ever |-> sweepG.ever \cup ex]]

\* what one call of _REMAPPRIVATEVIEW leaves in privateMapBytes and startAt, and the
\* files its loop looked at; with no file in the set it returns at once
RemapResult(e) ==
    LET sz == Len(allFiles)
        ntodo == Ntodo(sz, e, privateMapBytes, durOptions)
        ex == Examine(allFiles, startAt % sz, ntodo, {})
    IN  IF sz = 0
        THEN [bytes |-> privateMapBytes, startAt |-> startAt,
              sweep |-> [sweepG EXCEPT !.count = @ + 1, !.from = startAt, !.todo = 0,
                                       !.bytes = privateMapBytes, !.examined = {}]]
        ELSE [bytes |-> 0, startAt |-> (startAt + ntodo) % sz,
              sweep |-> [count |-> sweepG.count + 1, from |-> startAt % sz,
                         todo |-> ntodo, bytes |-> privateMapBytes,
                         examined |-> ex, ever |-> sweepG.ever \cup ex]]

\* one call of REMAPPRIVATEVIEW (the caller is in W and nothing is buffered)
REMAPPRIVATEVIEW ==
    /\ Running
    /\ sweepG.count < MaxSweeps
    /\ \E e \in 0 .. Len(allFiles) :
          /\ privateMapBytes' = RemapResult(e).bytes
          /\ startAt' = RemapResult(e).startAt
          /\ sweepG' = RemapResult(e).sweep
    /\ UNCHANGED <<pc, call, lockVars, commitJob, notify, waitFor, n, ab, dbLocked,
                   commitsInWriteLock, seqG, durOptions, modeG, allFiles, slept,
                   numExitCalls,
                   startupG>>
    /\ UNCHANGED <<shared, written, cow, privVal, willNeedRemap, nwrites, diskVars,
                   histVars>>

\* commits add the bytes they wrote, in the private views of DurableMappedFiles, to
\* the footprint
Footprint ==
    /\ Running
    /\ \E i \in DOMAIN allFiles : allFiles[i] = "durable"
    /\ privateMapBytes < UncommittedBytesLimit
    /\ privateMapBytes' = privateMapBytes + 1
    /\ UNCHANGED <<pc, call, lockVars, commitJob, notify, waitFor, n, ab, dbLocked,
                   commitsInWriteLock, seqG, auxVars>>
    /\ UNCHANGED <<memVars, diskVars, histVars>>

\* Database::closeDatabase on the last open database, called in W:
\* commitIfNeeded(true) commits and, being in W, remaps; then the files are closed
\* and leave the set
closeDatabase ==
    /\ Running
    /\ Len(allFiles) > 0
    /\ sweepG.count < MaxSweeps
    /\ \E e \in 0 .. Len(allFiles) :
          /\ privateMapBytes' = RemapResult(e).bytes
          /\ startAt' = RemapResult(e).startAt
          /\ sweepG' = [RemapResult(e).sweep EXCEPT !.examined = {}, !.ever = {}]
    /\ allFiles' = <<>>
    /\ UNCHANGED <<pc, call, lockVars, commitJob, notify, waitFor, n, ab, dbLocked,
                   commitsInWriteLock, seqG, durOptions, modeG, slept, numExitCalls,
                   startupG>>
    /\ UNCHANGED <<shared, written, cow, privVal, willNeedRemap, nwrites, diskVars,
                   histVars>>

SweepInit ==
    /\ CoreInit
    /\ durOptions \in {{}, {"DurAlwaysRemap"}}
    /\ modeG = <<>>
    /\ allFiles \in UNION {[1 .. k -> {"durable", "plain"}] : k \in 1 .. MaxFiles}
    /\ sweepG = NoSweep
    /\ LoopTop

SweepNext ==
    \/ REMAPPRIVATEVIEW
    \/ Footprint
    \/ closeDatabase

SweepSpec == SweepInit /\ [][SweepNext]_vars

\* ------------------------------------------------------------- durThread's loop, shutdown
\* The loop of durThread with its sleeps and its test of inShutdown(), and
\* exitCleanly: Lock::GlobalWrite, shutdownServer, dbexit.

\* while( !inShutdown() ) { ... stats.rotate(); sleepmillis(oneThird);
\* after the loop: cc().shutdown()
durThread(t) ==
    /\ Running
    /\ t = DurThread
    /\ pc[t] = "sleep"
    /\ IF numExitCalls > 0
       THEN /\ pc' = [pc EXCEPT ![t] = "done"]
            /\ UNCHANGED slept
       ELSE /\ pc' = [pc EXCEPT ![t] = "check"]
            /\ slept' = 1
    /\ UNCHANGED <<call, lockVars, commitJob, notify, waitFor, privateMapBytes, n, ab,
                   dbLocked, commitsInWriteLock, seqG, durOptions, modeG, allFiles,
                   sweepG, numExitCalls,
                   startupG>>
    /\ UNCHANGED <<memVars, diskVars, histVars>>

\* mutant of durThreadWake: a waiting thread does not end the sleeps
durThreadWake_ignoresWaiter(t) ==
    /\ Running
    /\ t = DurThread
    /\ pc[t] = "check"
    /\ IF slept < 3 /\ ~(commitJob.bytes > UncommittedBytesLimit \div 2)
       THEN /\ slept' = slept + 1
            /\ UNCHANGED pc
       ELSE /\ pc' = [pc EXCEPT ![t] = "commit"]
            /\ UNCHANGED slept
    /\ UNCHANGED <<call, lockVars, commitJob, notify, waitFor, privateMapBytes, n, ab,
                   dbLocked, commitsInWriteLock, seqG, durOptions, modeG, allFiles,
                   sweepG, numExitCalls,
                   startupG>>
    /\ UNCHANGED <<memVars, diskVars, histVars>>

\* for( unsigned i = 1; i <= 2; i++ ) { if( nWaiting() ) break;
\* if( bytes() > UncommittedBytesLimit / 2 ) break; sleepmillis(oneThird); }
durThreadWake(t) ==
    /\ Running
    /\ t = DurThread
    /\ pc[t] = "check"
    /\ IF /\ slept < 3
          /\ notify.nWaiting = 0
          /\ ~(commitJob.bytes > UncommittedBytesLimit \div 2)
       THEN /\ slept' = slept + 1
            /\ UNCHANGED pc
       ELSE /\ pc' = [pc EXCEPT ![t] = "commit"]
            /\ UNCHANGED slept
    /\ UNCHANGED <<call, lockVars, commitJob, notify, waitFor, privateMapBytes, n, ab,
                   dbLocked, commitsInWriteLock, seqG, durOptions, modeG, allFiles,
                   sweepG, numExitCalls,
                   startupG>>
    /\ UNCHANGED <<memVars, diskVars, histVars>>

\* durThreadGroupCommit(), called after the sleeps
durThreadCommit(t) == DurChoice(t, "commit")

\* exitCleanly: OperationContextImpl txn; Lock::GlobalWrite lk(txn.lockState()) ...
exitCleanly(t) ==
    /\ Running
    /\ t \in Fg
    /\ pc[t] = "idle"
    /\ lockState[t] = "none"
    /\ pc' = [pc EXCEPT ![t] = "EC_lockW"]
    /\ UNCHANGED <<call, lockVars, commitJob, notify, waitFor, privateMapBytes, n, ab,
                   dbLocked, commitsInWriteLock, seqG, auxVars>>
    /\ UNCHANGED <<memVars, diskVars, histVars>>

\* ... the global lock is granted in W
EC_lockW(t) ==
    /\ Running
    /\ pc[t] = "EC_lockW"
    /\ Compatible(t, "W")
    /\ lockState' = [lockState EXCEPT ![t] = "W"]
    /\ pc' = [pc EXCEPT ![t] = "SS_commit"]
    /\ UNCHANGED <<call, groupCommitMutex, mmmutex, commitJob, notify, waitFor,
                   privateMapBytes, n, ab, dbLocked, commitsInWriteLock, seqG, auxVars>>
    /\ UNCHANGED <<memVars, diskVars, histVars>>

\* mutant of SS_commit: shutdownServer goes on to the files without the final commit
SS_commit_skipped(t) ==
    /\ Running
    /\ pc[t] = "SS_commit"
    /\ call' = [call EXCEPT ![t] = [NoCall EXCEPT !.entry = "W"]]
    /\ pc' = [pc EXCEPT ![t] = "CN_ret"]
    /\ UNCHANGED <<lockVars, commitJob, notify, waitFor, privateMapBytes, n, ab,
                   dbLocked, commitsInWriteLock, seqG, auxVars>>
    /\ UNCHANGED <<memVars, diskVars, histVars>>

\* shutdownServer: invariant(isW()); ... "shutdown: final commit...";
\* getDur().commitNow(txn), which is groupCommit(txn, NULL)
SS_commit(t) ==
    /\ Running
    /\ pc[t] = "SS_commit"
    /\ EpochLeft(Pending + 1)
    /\ IF lockState[t] # "W"
       THEN Died
       ELSE /\ call' = [call EXCEPT ![t] = [NoCall EXCEPT !.entry = "W", !.need = TRUE]]
            /\ pc' = [pc EXCEPT ![t] = "GC_mutex"]
            /\ UNCHANGED <<lockVars, commitJob, notify, waitFor, privateMapBytes, n, ab,
                           dbLocked, commitsInWriteLock, seqG, auxVars>>
            /\ UNCHANGED <<memVars, diskVars, histVars>>

\* shutdownServer, after commitNow has returned: flushAllFiles(true),
\* MemoryMappedFile::closeAllFiles (closingFileNotification: fassert(18507) if writes
\* are buffered and inShutdown() is false), journalCleanup(true)
closeAllFiles(t) ==
    /\ Running
    /\ pc[t] = "CN_ret"
    /\ lockState[t] = "W"
    /\ IF hasWritten /\ numExitCalls = 0
       THEN Died
       ELSE /\ disk' = shared
            /\ allFiles' = <<>>
            /\ journal' = <<>>
            /\ call' = [call EXCEPT ![t] = NoCall]
            /\ pc' = [pc EXCEPT ![t] = "dbexit"]
            /\ UNCHANGED <<lockVars, commitJob, notify, waitFor, privateMapBytes, n, ab,
                           dbLocked, commitsInWriteLock, seqG, durOptions, modeG,
                           sweepG, slept, numExitCalls,
                   startupG>>
            /\ UNCHANGED <<memVars, phase, histVars>>

\* dbexit: numExitCalls++ ...
dbexit(t) ==
    /\ Running
    /\ pc[t] = "dbexit"
    /\ numExitCalls' = numExitCalls + 1
    /\ pc' = [pc EXCEPT ![t] = "DX_mutex"]
    /\ UNCHANGED <<call, lockVars, commitJob, notify, waitFor, privateMapBytes, n, ab,
                   dbLocked, commitsInWriteLock, seqG, durOptions, modeG, allFiles,
                   sweepG, slept, startupG>>
    /\ UNCHANGED <<memVars, diskVars, histVars>>

\* ... SimpleMutex::scoped_lock lk(dur::commitJob.groupCommitMutex); ::_exit(rc)
DX_exit(t) ==
    /\ Running
    /\ pc[t] = "DX_mutex"
    /\ groupCommitMutex = NoThread
    /\ groupCommitMutex' = t
    /\ phase' = "exited"
    /\ UNCHANGED <<pc, call, lockState, mmmutex, commitJob, notify, waitFor,
                   privateMapBytes, n, ab, dbLocked, commitsInWriteLock, seqG, auxVars>>
    /\ UNCHANGED <<memVars, journal, disk, histVars>>

LoopNext ==
    \/ \E t \in Callers : FgLock(t, "w")
    \/ \E t \in Callers : FgUnlock(t)
    \/ \E t \in Callers, a \in Addr : Write(t, a)
    \/ \E t \in Callers : awaitCommit(t)
    \/ \E t \in Callers : awaitCommitReturn(t)
    \/ \E t \in Callers : exitCleanly(t)
    \/ \E t \in Callers : EC_lockW(t)
    \/ \E t \in Callers : SS_commit(t)
    \/ \E t \in Callers : closeAllFiles(t)
    \/ \E t \in Callers : dbexit(t)
    \/ \E t \in Callers : DX_exit(t)
    \/ durThread(DurThread)
    \/ durThreadWake(DurThread)
    \/ durThreadCommit(DurThread)
    \/ LL_lockR(DurThread)
    \/ LL_mutex(DurThread)
    \/ LL_begin(DurThread)
    \/ LL_check(DurThread)
    \/ LL_prep(DurThread)
    \/ LL_lk3(DurThread)
    \/ LL_reset(DurThread)
    \/ LL_unlockR(DurThread)
    \/ LL_journal(DurThread)
    \/ LL_journalEnd(DurThread)
    \/ LL_notify(DurThread)
    \/ LL_datafiles(DurThread)
    \/ LL_abreset(DurThread)
    \/ FL_lockW(DurThread)
    \/ FL_downgrade(DurThread)
    \/ \E t \in Threads : GC_mutex(t)
    \/ \E t \in Threads : GC_begin(t)
    \/ \E t \in Threads : GC_check(t)
    \/ \E t \in Threads : GC_prep(t)
    \/ \E t \in Threads : GC_journal(t)
    \/ \E t \in Threads : GC_journalEnd(t)
    \/ \E t \in Threads : GC_notify(t)
    \/ \E t \in Threads : GC_datafiles(t)
    \/ \E t \in Threads : GC_reset(t)
    \/ \E t \in Threads : GC_abreset(t)
    \/ \E t \in Threads : GC_unlock(t)
    \/ GC_upgrade(DurThread)
    \/ \E t \in Threads : GC_remap(t)
    \/ DTGC_ret(DurThread)

LoopSpec == Init /\ [][LoopNext]_vars

\* ------------------------------------------------------------- startup
\* dur::startup() of a process that finds the journal and the data files of an
\* earlier run; no thread of the new process exists yet.

\* the journal files startup() can find: a crash in the middle of a journal write
\* leaves the last section incomplete; a damaged disk can make any section invalid
\* (complete = FALSE: the section does not pass the validation of its header and
\* checksum)
RECURSIVE Journals(_)
Journals(k) ==
    IF k = 0 THEN {<<>>}
    ELSE Journals(k - 1) \cup
         {Append(j, [data |-> {<<a, v>>}, complete |-> c]) :
            j \in {i \in Journals(k - 1) : Len(i) = k - 1},
            a \in Addr, v \in 1 .. MaxWrites, c \in BOOLEAN}

\* a section that is not the last one does not pass validation
Corrupt(jnl) == \E i \in 1 .. Len(jnl) - 1 : ~jnl[i].complete

StartupInit ==
    /\ pc = [t \in Threads |-> "dead"]
    /\ lockState = [t \in Threads |-> "none"]
    /\ call = [t \in Threads |-> NoCall]
    /\ groupCommitMutex = NoThread
    /\ mmmutex = {}
    /\ commitJob = EmptyJob
    /\ notify = [lastReturned |-> 0, lastDone |-> 0, nWaiting |-> 0]
    /\ waitFor = [t \in Threads |-> 0]
    /\ privateMapBytes = 0
    /\ n = 0
    /\ ab = {}
    /\ journal \in Journals(MaxJournal)
    /\ disk \in [Addr -> 0 .. MaxWrites]
    /\ shared = disk
    /\ cow = {}
    /\ privVal = ZeroMem
    /\ willNeedRemap = {}
    /\ startAt = 0
    /\ written = [a \in Addr |-> {disk[a]}]
    /\ phase = "crashed"
    /\ nwrites = 0
    /\ snapG = ZeroMem
    /\ durableG = ZeroMem
    /\ ackG = [t \in Threads |-> ZeroMem]
    /\ dbLocked = [t \in Threads |-> "none"]
    /\ commitsInWriteLock = 0
    /\ seqG = NoSeq
    /\ OptionsOff
    /\ OneFile
    /\ slept = 0
    /\ numExitCalls = 0
    /\ \E d \in BOOLEAN, f \in BOOLEAN :
          startupG = [dur |-> d, impl |-> "nonDurable", at |-> "startup", recovers |-> 0,
                      thread |-> FALSE, thrown |-> FALSE, fails |-> f]

\* what startup() leaves alone while it runs
startupFrame ==
    UNCHANGED <<pc, call, lockVars, commitJob, notify, waitFor, privateMapBytes, n, ab,
                dbLocked, commitsInWriteLock, seqG, durOptions, modeG, allFiles, sweepG,
                slept, numExitCalls, memVars, journal, histVars>>

\* if (!storageGlobalParams.dur) return;
startup ==
    /\ startupG.at = "startup"
    /\ startupG' = [startupG EXCEPT !.at = IF startupG.dur THEN "enableDurability"
                                                           ELSE "returned"]
    /\ UNCHANGED <<disk, phase>>
    /\ startupFrame

\* DurableInterface::enableDurability(): verify(_impl == nonDurableImpl);
\* _impl = durableImpl
enableDurability ==
    /\ startupG.at = "enableDurability"
    /\ startupG.impl = "nonDurable"
    /\ startupG' = [startupG EXCEPT !.impl = "durable", !.at = "journalMakeDir"]
    /\ UNCHANGED <<disk, phase>>
    /\ startupFrame

journalMakeDir ==
    /\ startupG.at = "journalMakeDir"
    /\ startupG' = [startupG EXCEPT !.at = "recover"]
    /\ UNCHANGED <<disk, phase>>
    /\ startupFrame

\* mutant of startupRecover: the handlers log and do not rethrow
startupRecover_swallows ==
    /\ startupG.at = "recover"
    /\ phase = "crashed"
    /\ IF startupG.fails
       THEN /\ startupG' = [startupG EXCEPT !.recovers = @ + 1, !.thrown = TRUE,
                                            !.at = "preallocateFiles"]
            /\ \E k \in 0 .. Len(journal) : disk' = recover(SubSeq(journal, 1, k), disk)
            /\ UNCHANGED phase
       ELSE /\ startupG' = [startupG EXCEPT !.recovers = @ + 1, !.at = "preallocateFiles"]
            /\ disk' = recover(journal, disk)
            /\ phase' = "recovered"
    /\ startupFrame

\* mutant of startupRecover: an invalid last section is fatal too
startupRecover_tailFatal ==
    /\ startupG.at = "recover"
    /\ phase = "crashed"
    /\ IF startupG.fails \/ \E i \in DOMAIN journal : ~journal[i].complete
       THEN /\ startupG' = [startupG EXCEPT !.recovers = @ + 1, !.thrown = TRUE,
                                            !.at = "thrown"]
            /\ \E k \in 0 .. Len(journal) : disk' = recover(SubSeq(journal, 1, k), disk)
            /\ UNCHANGED phase
       ELSE /\ startupG' = [startupG EXCEPT !.recovers = @ + 1, !.at = "preallocateFiles"]
            /\ disk' = recover(journal, disk)
            /\ phase' = "recovered"
    /\ startupFrame

\* mutant of startupRecover: the replay leaves out the last valid section
startupRecover_stopsEarly ==
    /\ startupG.at = "recover"
    /\ phase = "crashed"
    /\ IF startupG.fails \/ Corrupt(journal)
       THEN /\ startupG' = [startupG EXCEPT !.recovers = @ + 1, !.thrown = TRUE,
                                            !.at = "thrown"]
            /\ \E k \in 0 .. Len(journal) : disk' = recover(SubSeq(journal, 1, k), disk)
            /\ UNCHANGED phase
       ELSE /\ startupG' = [startupG EXCEPT !.recovers = @ + 1, !.at = "preallocateFiles"]
            /\ disk' = recover(SubSeq(journal, 1, Len(journal) - 1), disk)
            /\ phase' = "recovered"
    /\ startupFrame

\* try { recover(&txn); } catch(...) { log() << ...; throw; }
\* recover() replays the journal into the data files; it throws when a section before
\* the last one is invalid (and on any other failure: fails); a recover() that throws
\* has replayed some of the sections, and startup() is left by the exception
startupRecover ==
    /\ startupG.at = "recover"
    /\ phase = "crashed"
    /\ IF startupG.fails \/ Corrupt(journal)
       THEN /\ startupG' = [startupG EXCEPT !.recovers = @ + 1, !.thrown = TRUE,
                                            !.at = "thrown"]
            /\ \E k \in 0 .. Len(journal) : disk' = recover(SubSeq(journal, 1, k), disk)
            /\ UNCHANGED phase
       ELSE /\ startupG' = [startupG EXCEPT !.recovers = @ + 1, !.at = "preallocateFiles"]
            /\ disk' = recover(journal, disk)
            /\ phase' = "recovered"
    /\ startupFrame

preallocateFiles ==
    /\ startupG.at = "preallocateFiles"
    /\ startupG' = [startupG EXCEPT !.at = "thread"]
    /\ UNCHANGED <<disk, phase>>
    /\ startupFrame

\* boost::thread t(durThread); and startup() returns
startDurThread ==
    /\ startupG.at = "thread"
    /\ startupG' = [startupG EXCEPT !.thread = TRUE, !.at = "returned"]
    /\ pc' = [pc EXCEPT ![DurThread] = "sleep"]
    /\ UNCHANGED <<disk, phase>>
    /\ UNCHANGED <<call, lockVars, commitJob, notify, waitFor, privateMapBytes, n, ab,
                   dbLocked, commitsInWriteLock, seqG, durOptions, modeG, allFiles, sweepG,
                   slept, numExitCalls, memVars, journal, histVars>>

StartupNext ==
    \/ startup
    \/ enableDurability
    \/ journalMakeDir
    \/ startupRecover
    \/ preallocateFiles
    \/ startDurThread

StartupSpec == StartupInit /\ [][StartupNext]_vars

\* ------------------------------------------------------------- syncDataAndTruncateJournal
\* A foreground thread that holds the global lock calls syncDataAndTruncateJournal
\* while the background thread and a writer run.

\* invariant(txn->lockState()->isW());
syncDataAndTruncateJournal(t) ==
    /\ Running
    /\ t \in Callers
    /\ pc[t] = "idle"
    /\ lockState[t] # "none"
    /\ IF lockState[t] # "W"
       THEN Died
       ELSE /\ pc' = [pc EXCEPT ![t] = "SD_mutex"]
            /\ UNCHANGED <<call, lockVars, commitJob, notify, waitFor, privateMapBytes, n,
                           ab, dbLocked, commitsInWriteLock, seqG, auxVars>>
            /\ UNCHANGED <<memVars, diskVars, histVars>>

\* { SimpleMutex::scoped_lock lk(commitJob.groupCommitMutex); }
SD_mutex(t) ==
    /\ Running
    /\ pc[t] = "SD_mutex"
    /\ groupCommitMutex = NoThread
    /\ pc' = [pc EXCEPT ![t] = "SD_commit"]
    /\ UNCHANGED <<call, lockVars, commitJob, notify, waitFor, privateMapBytes, n, ab,
                   dbLocked, commitsInWriteLock, seqG, auxVars>>
    /\ UNCHANGED <<memVars, diskVars, histVars>>

\* mutant of SD_commit: the flush and the removal of the journal follow without a commit
SD_commit_skipped(t) ==
    /\ Running
    /\ pc[t] = "SD_commit"
    /\ call' = [call EXCEPT ![t] = [NoCall EXCEPT !.entry = "W"]]
    /\ pc' = [pc EXCEPT ![t] = "CN_ret"]
    /\ UNCHANGED <<lockVars, commitJob, notify, waitFor, privateMapBytes, n, ab,
                   dbLocked, commitsInWriteLock, seqG, auxVars>>
    /\ UNCHANGED <<memVars, diskVars, histVars>>

\* commitNow(txn), which is groupCommit(txn, NULL)
SD_commit(t) ==
    /\ Running
    /\ pc[t] = "SD_commit"
    /\ EpochLeft(Pending + 1)
    /\ call' = [call EXCEPT ![t] = [NoCall EXCEPT !.entry = "W", !.need = TRUE]]
    /\ pc' = [pc EXCEPT ![t] = "GC_mutex"]
    /\ UNCHANGED <<lockVars, commitJob, notify, waitFor, privateMapBytes, n, ab,
                   dbLocked, commitsInWriteLock, seqG, auxVars>>
    /\ UNCHANGED <<memVars, diskVars, histVars>>

\* globalStorageEngine->flushAllFiles(true); journalCleanup();
\* verify(!haveJournalFiles()); and the return
SD_flush(t) ==
    /\ Running
    /\ pc[t] = "CN_ret"
    /\ disk' = shared
    /\ journal' = <<>>
    /\ call' = [call EXCEPT ![t] = NoCall]
    /\ pc' = [pc EXCEPT ![t] = "idle"]
    /\ UNCHANGED <<lockVars, commitJob, notify, waitFor, privateMapBytes, n, ab,
                   dbLocked, commitsInWriteLock, seqG, auxVars>>
    /\ UNCHANGED <<memVars, phase, histVars>>

SyncNext ==
    \/ \E t \in Fg, m \in {"w", "W"} : FgLock(t, m)
    \/ \E t \in Fg : FgUnlock(t)
    \/ \E t \in Fg, a \in Addr : Write(t, a)
    \/ \E t \in Callers : syncDataAndTruncateJournal(t)
    \/ \E t \in Callers : SD_mutex(t)
    \/ \E t \in Callers : SD_commit(t)
    \/ \E t \in Callers : SD_flush(t)
    \/ durThreadGroupCommit(DurThread)
    \/ LL_lockR(DurThread)
    \/ LL_mutex(DurThread)
    \/ LL_begin(DurThread)
    \/ LL_check(DurThread)
    \/ LL_prep(DurThread)
    \/ LL_lk3(DurThread)
    \/ LL_reset(DurThread)
    \/ LL_unlockR(DurThread)
    \/ LL_journal(DurThread)
    \/ LL_journalEnd(DurThread)
    \/ LL_notify(DurThread)
    \/ LL_datafiles(DurThread)
    \/ LL_abreset(DurThread)
    \/ FL_lockW(DurThread)
    \/ FL_downgrade(DurThread)
    \/ \E t \in Threads : GC_mutex(t)
    \/ \E t \in Threads : GC_begin(t)
    \/ \E t \in Threads : GC_check(t)
    \/ \E t \in Threads : GC_prep(t)
    \/ \E t \in Threads : GC_journal(t)
    \/ \E t \in Threads : GC_journalEnd(t)
    \/ \E t \in Threads : GC_notify(t)
    \/ \E t \in Threads : GC_datafiles(t)
    \/ \E t \in Threads : GC_reset(t)
    \/ \E t \in Threads : GC_abreset(t)
    \/ \E t \in Threads : GC_unlock(t)
    \/ GC_upgrade(DurThread)
    \/ \E t \in Threads : GC_remap(t)
    \/ DTGC_ret(DurThread)

SyncSpec == Init /\ [][SyncNext]_vars

\* ------------------------------------------------------------- closing files
\* Database::closeDatabase and other closes of mapped files, with durability on or
\* off, before and after dbexit has raised numExitCalls.

\* startup() has returned without durability configured: NonDurableImpl is active and
\* durThread was never started
NotDurable == [dur |-> FALSE, impl |-> "nonDurable", at |-> "returned", recovers |-> 0,
               thread |-> FALSE, thrown |-> FALSE, fails |-> FALSE]

CloseInit ==
    /\ CoreInit
    /\ OptionsOff
    /\ OneFile
    /\ slept = 0
    /\ numExitCalls \in 0 .. 1
    /\ startupG \in {StartupDone, NotDurable}

\* Database::closeDatabase: invariant(isW()); commitIfNeeded(true), which on
\* NonDurableImpl returns false at once
Database_closeDatabase(t) ==
    /\ Running
    /\ t \in Callers
    /\ pc[t] = "idle"
    /\ lockState[t] # "none"
    /\ IF lockState[t] # "W"
       THEN Died
       ELSE IF startupG.impl = "durable"
            THEN commitIfNeeded(t, TRUE)
            ELSE /\ call' = [call EXCEPT ![t] = [NoCall EXCEPT !.entry = lockState[t]]]
                 /\ pc' = [pc EXCEPT ![t] = "CN_retFalse"]
                 /\ UNCHANGED <<lockVars, commitJob, notify, waitFor, privateMapBytes, n,
                                ab, dbLocked, commitsInWriteLock, seqG, auxVars>>
                 /\ UNCHANGED <<memVars, diskVars, histVars>>

\* commitIfNeeded has returned; dbHolder().erase(txn, db); delete database: the files
\* of the database close
CD_close(t) ==
    /\ Running
    /\ pc[t] \in {"CN_ret", "CN_retFalse"}
    /\ call' = [call EXCEPT ![t] = NoCall]
    /\ pc' = [pc EXCEPT ![t] = "CD_notify"]
    /\ UNCHANGED <<lockVars, commitJob, notify, waitFor, privateMapBytes, n, ab,
                   dbLocked, commitsInWriteLock, seqG, auxVars>>
    /\ UNCHANGED <<memVars, diskVars, histVars>>

\* a mapped file closes with no commit made for it (DurableMappedFile::close)
closeFile(t) ==
    /\ Running
    /\ t \in Fg
    /\ pc[t] = "idle"
    /\ pc' = [pc EXCEPT ![t] = "CF_notify"]
    /\ UNCHANGED <<call, lockVars, commitJob, notify, waitFor, privateMapBytes, n, ab,
                   dbLocked, commitsInWriteLock, seqG, auxVars>>
    /\ UNCHANGED <<memVars, diskVars, histVars>>

\* mutant of closingFileNotification: inShutdown() is not looked at
closingFileNotification_alwaysFatal(t) ==
    /\ Running
    /\ pc[t] \in {"CD_notify", "CF_notify"}
    /\ IF startupG.dur /\ hasWritten
       THEN Died
       ELSE /\ pc' = [pc EXCEPT ![t] = IF pc[t] = "CD_notify" THEN "CD_closed"
                                                             ELSE "CF_closed"]
            /\ UNCHANGED <<call, lockVars, commitJob, notify, waitFor, privateMapBytes, n,
                           ab, dbLocked, commitsInWriteLock, seqG, auxVars>>
            /\ UNCHANGED <<memVars, diskVars, histVars>>

\* if (!storageGlobalParams.dur) return; if (commitJob.hasWritten()) { if
\* (inShutdown()) log() << "journal warning ..."; else fassert(18507, ...); }
closingFileNotification(t) ==
    /\ Running
    /\ pc[t] \in {"CD_notify", "CF_notify"}
    /\ IF startupG.dur /\ hasWritten /\ numExitCalls = 0
       THEN Died
       ELSE /\ pc' = [pc EXCEPT ![t] =
                        IF startupG.dur /\ hasWritten
                        THEN IF pc[t] = "CD_notify" THEN "CD_warned" ELSE "CF_warned"
                        ELSE IF pc[t] = "CD_notify" THEN "CD_closed" ELSE "CF_closed"]
            /\ UNCHANGED <<call, lockVars, commitJob, notify, waitFor, privateMapBytes, n,
                           ab, dbLocked, commitsInWriteLock, seqG, auxVars>>
            /\ UNCHANGED <<memVars, diskVars, histVars>>

\* the close is over, the thread goes on
CF_ret(t) ==
    /\ Running
    /\ pc[t] \in {"CD_warned", "CD_closed", "CF_warned", "CF_closed"}
    /\ pc' = [pc EXCEPT ![t] = "idle"]
    /\ UNCHANGED <<call, lockVars, commitJob, notify, waitFor, privateMapBytes, n, ab,
                   dbLocked, commitsInWriteLock, seqG, auxVars>>
    /\ UNCHANGED <<memVars, diskVars, histVars>>

\* DurableImpl::declareWriteIntent and the write; NonDurableImpl records nothing
declareWriteIntent(t, a) ==
    /\ startupG.impl = "durable"
    /\ Write(t, a)

\* durThread runs only when startup() has started it
durThreadRuns(t) ==
    /\ startupG.thread
    /\ durThreadGroupCommit(t)

CloseNext ==
    \/ \E t \in Fg, m \in {"w", "W"} : FgLock(t, m)
    \/ \E t \in Fg : FgUnlock(t)
    \/ \E t \in Fg, a \in Addr : declareWriteIntent(t, a)
    \/ \E t \in Callers : Database_closeDatabase(t)
    \/ \E t \in Callers : CD_close(t)
    \/ \E t \in Fg \ Callers : closeFile(t)
    \/ \E t \in Fg : closingFileNotification(t)
    \/ \E t \in Fg : CF_ret(t)
    \/ durThreadRuns(DurThread)
    \/ LL_lockR(DurThread)
    \/ LL_mutex(DurThread)
    \/ LL_begin(DurThread)
    \/ LL_check(DurThread)
    \/ LL_prep(DurThread)
    \/ LL_lk3(DurThread)
    \/ LL_reset(DurThread)
    \/ LL_unlockR(DurThread)
    \/ LL_journal(DurThread)
    \/ LL_journalEnd(DurThread)
    \/ LL_notify(DurThread)
    \/ LL_datafiles(DurThread)
    \/ LL_abreset(DurThread)
    \/ FL_lockW(DurThread)
    \/ FL_downgrade(DurThread)
    \/ \E t \in Threads : GC_mutex(t)
    \/ \E t \in Threads : GC_begin(t)
    \/ \E t \in Threads : GC_check(t)
    \/ \E t \in Threads : GC_prep(t)
    \/ \E t \in Threads : GC_journal(t)
    \/ \E t \in Threads : GC_journalEnd(t)
    \/ \E t \in Threads : GC_notify(t)
    \/ \E t \in Threads : GC_datafiles(t)
    \/ \E t \in Threads : GC_reset(t)
    \/ \E t \in Threads : GC_abreset(t)
    \/ \E t \in Threads : GC_unlock(t)
    \/ GC_upgrade(DurThread)
    \/ \E t \in Threads : GC_remap(t)
    \/ DTGC_ret(DurThread)

CloseSpec == CloseInit /\ [][CloseNext]_vars

\* ------------------------------------------------------------- the mode switch
\* DurableInterface::enableDurability and disableDurability called at any time by a
\* thread that also writes and commits.

\* enableDurability(): verify(_impl == nonDurableImpl); _impl = durableImpl;
\* a failed verify throws and leaves _impl as it is
DurableInterface_enableDurability(t) ==
    /\ Running
    /\ t \in Callers
    /\ pc[t] = "idle"
    /\ IF startupG.impl = "nonDurable"
       THEN /\ startupG' = [startupG EXCEPT !.impl = "durable"]
            /\ pc' = [pc EXCEPT ![t] = "EN_ok"]
       ELSE /\ pc' = [pc EXCEPT ![t] = "EN_threw"]
            /\ UNCHANGED startupG
    /\ UNCHANGED <<call, lockVars, commitJob, notify, waitFor, privateMapBytes, n, ab,
                   dbLocked, commitsInWriteLock, seqG, durOptions, modeG, allFiles,
                   sweepG, slept, numExitCalls>>
    /\ UNCHANGED <<memVars, diskVars, histVars>>

\* mutant of DurableInterface_disableDurability: pending writes are not looked at
DurableInterface_disableDurability_unchecked(t) ==
    /\ Running
    /\ t \in Callers
    /\ pc[t] = "idle"
    /\ IF startupG.impl = "durable"
       THEN /\ startupG' = [startupG EXCEPT !.impl = "nonDurable"]
            /\ pc' = [pc EXCEPT ![t] = "DIS_ok"]
       ELSE /\ pc' = [pc EXCEPT ![t] = "DIS_threw"]
            /\ UNCHANGED startupG
    /\ UNCHANGED <<call, lockVars, commitJob, notify, waitFor, privateMapBytes, n, ab,
                   dbLocked, commitsInWriteLock, seqG, durOptions, modeG, allFiles,
                   sweepG, slept, numExitCalls>>
    /\ UNCHANGED <<memVars, diskVars, histVars>>

\* disableDurability(): verify(_impl == durableImpl); massert(13616, "can't disable
\* durability with pending writes", !commitJob.hasWritten()); _impl = nonDurableImpl;
\* a failed verify or massert throws and leaves _impl as it is
DurableInterface_disableDurability(t) ==
    /\ Running
    /\ t \in Callers
    /\ pc[t] = "idle"
    /\ IF startupG.impl = "durable" /\ ~hasWritten
       THEN /\ startupG' = [startupG EXCEPT !.impl = "nonDurable"]
            /\ pc' = [pc EXCEPT ![t] = "DIS_ok"]
       ELSE /\ pc' = [pc EXCEPT ![t] = "DIS_threw"]
            /\ UNCHANGED startupG
    /\ UNCHANGED <<call, lockVars, commitJob, notify, waitFor, privateMapBytes, n, ab,
                   dbLocked, commitsInWriteLock, seqG, durOptions, modeG, allFiles,
                   sweepG, slept, numExitCalls>>
    /\ UNCHANGED <<memVars, diskVars, histVars>>

\* the call of enableDurability or disableDurability is over
SW_ret(t) ==
    /\ Running
    /\ pc[t] \in {"EN_ok", "EN_threw", "DIS_ok", "DIS_threw"}
    /\ pc' = [pc EXCEPT ![t] = "idle"]
    /\ UNCHANGED <<call, lockVars, commitJob, notify, waitFor, privateMapBytes, n, ab,
                   dbLocked, commitsInWriteLock, seqG, auxVars>>
    /\ UNCHANGED <<memVars, diskVars, histVars>>

\* getDur().commitIfNeeded(txn, true) while DurableImpl is active
\* (NonDurableImpl::commitIfNeeded returns false and does nothing)
getDur_commitIfNeeded(t) ==
    /\ startupG.impl = "durable"
    /\ commitIfNeeded(t, TRUE)

SwitchInit ==
    /\ CoreInit
    /\ OptionsOff
    /\ OneFile
    /\ slept = 0
    /\ numExitCalls = 0
    /\ startupG = NotDurable

SwitchNext ==
    \/ \E t \in Fg, m \in {"w", "W"} : FgLock(t, m)
    \/ \E t \in Fg : FgUnlock(t)
    \/ \E t \in Fg, a \in Addr : declareWriteIntent(t, a)
    \/ \E t \in Callers : DurableInterface_enableDurability(t)
    \/ \E t \in Callers : DurableInterface_disableDurability(t)
    \/ \E t \in Callers : SW_ret(t)
    \/ \E t \in Callers : getDur_commitIfNeeded(t)
    \/ \E t \in Callers : ACN_lockR(t)
    \/ \E t \in Callers : ACN_recheck(t)
    \/ \E t \in Callers : ACN_upgrade(t)
    \/ \E t \in Callers : commitIfNeededReturn(t)
    \/ \E t \in Callers : GC_mutex(t)
    \/ \E t \in Callers : GC_begin(t)
    \/ \E t \in Callers : GC_check(t)
    \/ \E t \in Callers : GC_prep(t)
    \/ \E t \in Callers : GC_journal(t)
    \/ \E t \in Callers : GC_journalEnd(t)
    \/ \E t \in Callers : GC_notify(t)
    \/ \E t \in Callers : GC_datafiles(t)
    \/ \E t \in Callers : GC_reset(t)
    \/ \E t \in Callers : GC_abreset(t)
    \/ \E t \in Callers : GC_unlock(t)
    \/ \E t \in Callers : GC_remap(t)

SwitchSpec == SwitchInit /\ [][SwitchNext]_vars

\* ------------------------------------------------------------- properties
\* a complete journal section holds value v for address a
Journaled(a, v) ==
    \E i \in 1 .. Len(journal) : journal[i].complete /\ <<a, v>> \in journal[i].data

\* a complete journal section holds, for address a, the bytes of write v or of a later one
JournaledSince(a, v) ==
    \E i \in 1 .. Len(journal) :
        /\ journal[i].complete
        /\ \E p \in journal[i].data : p[1] = a /\ p[2] >= v

\* positions between commitingBegin and the end of the mutex scope
InCycle == {"LL_check", "LL_prep", "LL_lk3", "LL_reset", "LL_unlockR", "LL_journal",
            "LL_journalEnd", "LL_notify", "LL_datafiles", "LL_abreset",
            "GC_check", "GC_prep", "GC_journal", "GC_journalEnd", "GC_notify",
            "GC_datafiles", "GC_reset", "GC_abreset", "GC_unlock"}

\* positions from the start of PREPLOGBUFFER up to committingReset
PrepToReset == {"LL_prep", "LL_lk3", "LL_reset",
                "GC_prep", "GC_journal", "GC_journalEnd", "GC_notify", "GC_datafiles",
                "GC_reset"}

\* a limited-locks cycle that has reset the intents and not yet written the data files
ResetNotApplied == {"LL_unlockR", "LL_journal", "LL_journalEnd", "LL_notify",
                    "LL_datafiles"}

\* C1 (durability): after a crash and recovery the data files hold, for every address
\* with an intent declared before the commitingBegin of a cycle whose WRITETOJOURNAL
\* finished, the bytes that intent had at the latest such cycle, whether or not
\* WRITETODATAFILES or REMAPPRIVATEVIEW ran.
C1_Durability ==
    phase = "recovered" =>
        \A a \in Addr : durableG[a] # 0 => disk[a] = durableG[a]

\* recovered, and the journaled bytes never were in the shared view before the crash
C1_Witness ==
    /\ phase = "recovered"
    /\ \E a \in Addr : durableG[a] # 0 /\ durableG[a] \notin written[a]
                       /\ disk[a] = durableG[a]

\* C2 (write-ahead): WRITETODATAFILES starts only once the journal holds its section
\* completely, and no byte of the shared views is an intent byte the journal lacks.
C2_WriteAhead ==
    /\ \A t \in Threads :
          pc[t] \in {"LL_datafiles", "GC_datafiles"} =>
              /\ Len(journal) > 0
              /\ journal[Len(journal)].complete
              /\ journal[Len(journal)].data = ab
    /\ \A a \in Addr : shared[a] # 0 => Journaled(a, shared[a])

C2_Witness ==
    /\ Running
    /\ \E a \in Addr : shared[a] # 0
    /\ \E t \in Threads : pc[t] \in {"LL_abreset", "GC_reset"}

\* C3 (at most one committer): a thread between commitingBegin and the end of its
\* prepare/reset/journal/data-file sequence holds groupCommitMutex, so there is at
\* most one such thread, and at most one that saw hasWritten() before its reset.
C3_OneCommitter ==
    /\ \A t \in Threads : pc[t] \in InCycle => groupCommitMutex = t
    /\ Cardinality({t \in Threads : pc[t] \in InCycle}) <= 1

\* the background thread is in its cycle while an early commit waits for the mutex
C3_Witness ==
    /\ pc[DurThread] \in InCycle
    /\ \E t \in Fg : pc[t] = "GC_mutex"

\* C4 (remap precondition): whenever _REMAPPRIVATEVIEW is about to execute,
\* commitJob.hasWritten() is false.
C4_RemapPrecondition ==
    \A t \in Threads : pc[t] = "GC_remap" => ~hasWritten

\* the background thread, upgraded after a cycle that journaled a section
C4_Witness ==
    /\ pc[DurThread] = "GC_remap"
    /\ call[DurThread].upgraded
    /\ Len(journal) > 0
    /\ ~hasWritten

\* C5 (remap loses no write): whenever a private view is about to be remapped, no
\* limited-locks cycle is between its committingReset and the end of its
\* WRITETODATAFILES, and the shared view holds every byte written to the private view.
C5_RemapLosesNoWrite ==
    \A t \in Threads :
        pc[t] = "GC_remap" =>
            /\ \A u \in Threads : pc[u] \notin ResetNotApplied
            /\ \A a \in cow : shared[a] = privVal[a]

C5_Witness ==
    \E t \in Threads :
        /\ pc[t] = "GC_remap"
        /\ cow # {}
        /\ cow \subseteq willNeedRemap

\* C6 (acknowledgement implies durability): when awaitCommit can return, every
\* address written under an intent before the call is in a complete journal section
\* with the bytes of that write or of a later one.
C6_AckImpliesDurable ==
    \A t \in Threads :
        (pc[t] = "await" /\ notify.lastDone > waitFor[t]) =>
            \A a \in Addr : ackG[t][a] # 0 => JournaledSince(a, ackG[t][a])

C6_Witness ==
    \E t \in Threads :
        /\ pc[t] = "await"
        /\ notify.lastDone > waitFor[t]
        /\ \E a \in Addr : ackG[t][a] # 0

\* C8 (no intent is lost by reset): from the start of PREPLOGBUFFER until
\* committingReset the committer holds the global lock in R or W and no other
\* thread is in w or W; what committingReset clears is what the section holds; the
\* last bytes written to an address are still buffered, or in the builder, or in
\* the journal.
C8_NoIntentLost ==
    /\ \A t \in Threads :
          pc[t] \in PrepToReset =>
              /\ lockState[t] \in {"R", "W"}
              /\ \A u \in Others(t) : lockState[u] \notin {"w", "W"}
    /\ \A t \in Threads :
          pc[t] \in {"LL_reset", "GC_reset"} => ab = PREPLOGBUFFER(commitJob)
    /\ Running =>
          \A a \in Addr :
              privVal[a] # 0 =>
                  \/ a \in commitJob.intents
                  \/ <<a, privVal[a]>> \in ab
                  \/ \E i \in 1 .. Len(journal) : <<a, privVal[a]>> \in journal[i].data

\* a limited-locks cycle has reset and still writes its section while a new intent
\* is buffered
C8_Witness ==
    /\ pc[DurThread] \in {"LL_journal", "LL_journalEnd", "LL_notify", "LL_datafiles"}
    /\ ab # {}
    /\ commitJob.intents # {}
    /\ \A a \in commitJob.intents : <<a, privVal[a]>> \notin ab

\* the call of commitIfNeeded found bytes() >= UncommittedBytesLimit in a lock state
\* that permits committing
Eligible(t) ==
    /\ call[t].need
    /\ \/ call[t].entry \in {"none", "W", "R"}
       \/ call[t].entry = "w" /\ call[t].upgraded

\* C9 as claimed: every eligible commitIfNeeded call that found bytes() >= limit
\* returns with a buffered byte count of zero.
C9_Original ==
    \A t \in Callers :
        (pc[t] \in {"CN_ret", "CN_retFalse"} /\ Eligible(t)) => bytes = 0

\* C9 as amended: such a call returns with a byte count of zero unless it was made
\* unlocked and found bytes() < limit after it got the global read lock; that call
\* returns false with a count below the limit.
C9_Backpressure ==
    \A t \in Callers :
        /\ (pc[t] = "CN_ret" /\ Eligible(t)) => bytes = 0
        /\ pc[t] = "CN_retFalse" =>
              call[t].entry = "none" /\ bytes < UncommittedBytesLimit

\* an unlocked call that committed
C9_Witness ==
    \E t \in Callers :
        /\ pc[t] = "CN_ret"
        /\ call[t].need
        /\ call[t].entry = "none"
        /\ call[t].began
        /\ bytes = 0
        /\ Len(journal) > 0

\* C10 (forced commit in 'W' or 'R'): the call that found bytes() >= limit returns
\* true only after the calling thread itself ran a commit cycle, nothing is
\* buffered then, and its lock state never changed during the call.
C10_InlineCommit ==
    \A t \in Callers :
        (call[t].need /\ call[t].entry \in {"W", "R"}) =>
            /\ lockState[t] = call[t].entry
            /\ ~call[t].upgraded
            /\ pc[t] # "CN_retFalse"
            /\ pc[t] = "CN_ret" => (call[t].began /\ ~hasWritten /\ groupCommitMutex # t)

\* the caller in W is back from its cycle and the background thread never ran
C10_Witness ==
    \E t \in Callers :
        /\ pc[t] = "CN_ret"
        /\ call[t].need
        /\ call[t].entry = "W"
        /\ call[t].began
        /\ pc[DurThread] = "sleep"
        /\ n = 0
        /\ Len(journal) > 0


\* C7 (waiters are released): while the process runs, every thread blocked in
\* awaitCommit is eventually released.
C7_WaitersReleased ==
    \A t \in Callers : (pc[t] = "await") ~> (pc[t] # "await")

\* a waiter that a cycle with nothing buffered has released: nothing was ever journaled
C7_Witness ==
    \E t \in Callers :
        /\ pc[t] = "await"
        /\ notify.lastDone > waitFor[t]
        /\ journal = <<>>
        /\ nwrites = 0


\* positions of _groupCommit and of the return with true
InGroupCommit == {"GC_mutex", "GC_begin", "GC_check", "GC_prep", "GC_journal",
                  "GC_journalEnd", "GC_notify", "GC_datafiles", "GC_reset", "GC_abreset",
                  "GC_unlock", "GC_remap"}

\* C11 (forced commit from an unlocked thread): the call re-reads bytes() only once it
\* holds the global read lock; it returns false, with no commit cycle begun, only
\* when bytes() is below the limit then; otherwise its cycle runs under that read
\* lock; and with unlocked callers racing no write is journaled twice and none is lost.
C11_UnlockedCommit ==
    /\ \A t \in Fg :
          call[t].entry = "none" =>
              /\ pc[t] \in {"ACN_recheck", "CN_retFalse", "CN_ret"} \cup InGroupCommit
                    => lockState[t] = "R"
              /\ pc[t] = "CN_retFalse" => (~call[t].began /\ bytes < UncommittedBytesLimit)
              /\ pc[t] = "CN_ret" => (call[t].began /\ ~hasWritten)
    /\ \A i, j \in 1 .. Len(journal) : i # j => journal[i].data \cap journal[j].data = {}
    /\ \A a \in Addr :
          privVal[a] # 0 =>
              \/ a \in commitJob.intents
              \/ <<a, privVal[a]>> \in ab
              \/ \E i \in 1 .. Len(journal) : <<a, privVal[a]>> \in journal[i].data

\* two unlocked callers raced: one committed the section, the other one found
\* bytes() below the limit under its read lock and returns false
C11_Witness ==
    \E t, u \in Fg :
        /\ t # u
        /\ call[t].entry = "none" /\ call[t].need /\ call[t].began
        /\ pc[t] \in {"GC_abreset", "GC_unlock", "CN_ret"}
        /\ call[u].entry = "none" /\ call[u].need
        /\ pc[u] = "CN_retFalse"
        /\ Len(journal) = 1


\* C12 (forced commit from 'w'): the call goes for the upgrade to the exclusive lock;
\* its thread is in a commit cycle only with the upgrade obtained, and it returns
\* with a cycle run if and only if the upgrade was obtained; without the upgrade no
\* cycle was begun and the thread is still in 'w'.
C12_UpgradeOrDecline ==
    \A t \in Fg :
        (call[t].entry = "w" /\ pc[t] # "CN_declined") =>
            /\ pc[t] \in InGroupCommit => (call[t].upgraded /\ lockState[t] = "W")
            /\ pc[t] = "CN_ret" => (call[t].began <=> call[t].upgraded)
            /\ (pc[t] = "CN_ret" /\ ~call[t].upgraded) => lockState[t] = "w"
            /\ pc[t] # "CN_retFalse"

\* the upgrade was refused because another thread is in 'w': no cycle ran although
\* bytes() >= limit
C12_Witness ==
    \E t \in Fg :
        /\ pc[t] = "CN_ret"
        /\ call[t].entry = "w"
        /\ call[t].need
        /\ ~call[t].upgraded
        /\ ~call[t].began
        /\ \E u \in Others(t) : lockState[u] = "w"
        /\ bytes >= UncommittedBytesLimit

\* the lock state of t makes commitIfNeeded decline
Declines(t) ==
    \/ lockState[t] = "r"
    \/ lockState[t] = "w" /\ dbLocked[t] \in {"local", "admin"}

\* C13 (a declined forced commit changes nothing): a call of commitIfNeeded that goes on
\* to _aCommitIsNeeded in 'r', or in 'w' with the local or admin database locked, goes
\* straight to its return of false, and neither the call nor the return changes the
\* intent buffer, the commit epoch, the lock state, the journal, the commit mutex,
\* the builder or the views.
C13_DeclineChangesNothing ==
    [][\A t \in Fg :
          /\ (pc[t] = "idle" /\ pc'[t] \notin {"idle", "dead"} /\ Declines(t)) =>
                /\ pc'[t] = "CN_declined"
                /\ ~call'[t].upgraded /\ ~call'[t].began
                /\ UNCHANGED <<commitJob, notify, lockState, dbLocked, journal,
                               groupCommitMutex, ab, shared, privateMapBytes>>
          /\ (pc[t] = "CN_declined" /\ pc'[t] \notin {"CN_declined", "dead"}) =>
                /\ pc'[t] = "idle"
                /\ UNCHANGED <<commitJob, notify, lockState, dbLocked, journal,
                               groupCommitMutex, ab, shared, privateMapBytes>>
      ]_vars

\* a call declined in 'w' under the admin database lock, with bytes() >= limit
C13_Witness ==
    \E t \in Fg :
        /\ pc[t] = "CN_declined"
        /\ lockState[t] = "w"
        /\ dbLocked[t] = "admin"
        /\ call[t].need
        /\ bytes >= UncommittedBytesLimit

\* C14 (commitIfNeeded(force = true)): a call that was made with bytes() below the
\* limit, so that only force took it past the first test, in a lock state that
\* permits committing, returns after a commit cycle of its own with hasWritten() false.
C14_ForceCommits ==
    \A t \in Fg :
        (/\ pc[t] \in {"CN_ret", "CN_retFalse"}
         /\ ~call[t].need
         /\ \/ call[t].entry \in {"none", "W", "R"}
            \/ call[t].entry = "w" /\ call[t].upgraded)
        => (call[t].began /\ ~hasWritten)


\* C15 (effect of one commit cycle): commitingBegin of every cycle advances the commit
\* epoch by exactly one and gives the cycle a commit number above the one before;
\* committingReset leaves bytes() = 0; and when the data-file write of a cycle is done,
\* and still when the cycle ends, the shared views hold every range of its section.
C15_CycleEffect ==
    [][\A t \in Threads :
          /\ (pc[t] \in {"LL_begin", "GC_begin"} /\ pc'[t] \in {"LL_check", "GC_check"}) =>
                /\ notify'.lastReturned = notify.lastReturned + 1
                /\ commitJob'.commitNumber = notify'.lastReturned
                /\ commitJob'.commitNumber > commitJob.commitNumber
          /\ (pc[t] \in {"LL_reset", "GC_reset"}
                /\ pc'[t] \in {"LL_unlockR", "GC_abreset"}) =>
                /\ commitJob'.bytes = 0
                /\ ~commitJob'.hasWritten
          /\ (pc[t] \in {"LL_datafiles", "GC_datafiles"}
                /\ pc'[t] \in {"LL_abreset", "GC_reset"}) =>
                \A p \in ab : shared'[p[1]] = p[2]
          /\ (pc[t] \in {"LL_abreset", "GC_abreset"} /\ pc'[t] \in {"sleep", "GC_unlock"}) =>
                /\ \A p \in ab : shared[p[1]] = p[2]
                /\ pc[t] = "GC_abreset" => commitJob.bytes = 0
      ]_vars

\* the first cycle of the background thread, at its end: epoch 1, nothing buffered,
\* the section in the shared view
C15_Witness ==
    /\ pc[DurThread] = "LL_abreset"
    /\ commitJob.commitNumber = 1
    /\ notify.lastReturned = 1
    /\ ab # {}
    /\ \A p \in ab : shared[p[1]] = p[2]
    /\ bytes = 0

\* C16 (no-op commit): a cycle that finds hasWritten() false after commitingBegin
\* notifies with its commit number and leaves the cycle at once (no PREPLOGBUFFER,
\* no journal write, no data-file write, no committingReset); intent buffer, journal,
\* shared views, data files and builder are as before.
C16_NoopCommit ==
    [][\A t \in Threads :
          (pc[t] \in {"LL_check", "GC_check"} /\ ~hasWritten
              /\ pc'[t] \notin {pc[t], "dead"}) =>
              /\ pc'[t] = IF pc[t] = "LL_check" THEN "sleep" ELSE "GC_unlock"
              /\ notify'.lastDone = commitJob.commitNumber
              /\ UNCHANGED <<commitJob, journal, shared, written, disk, ab,
                             privateMapBytes>>
      ]_vars

\* an early commit that found nothing buffered is past its notify; the journal is empty
C16_Witness ==
    \E t \in Fg :
        /\ pc[t] = "GC_unlock"
        /\ call[t].began
        /\ journal = <<>>
        /\ commitJob.commitNumber > 0
        /\ notify.lastDone = commitJob.commitNumber

\* the positions of _groupCommitWithLimitedLocks, in program order
LLOrder == <<"LL_lockR", "LL_mutex", "LL_begin", "LL_check", "LL_prep", "LL_lk3",
             "LL_reset", "LL_unlockR", "LL_journal", "LL_journalEnd", "LL_notify",
             "LL_datafiles", "LL_abreset">>

LLIndex(p) == CHOOSE i \in DOMAIN LLOrder : LLOrder[i] = p

\* the positions LLOrder[i] .. LLOrder[j]
LLRange(i, j) == {LLOrder[k] : k \in i .. j}

\* C17 (limited-locks step order): the steps are taken in the order read lock, commit
\* mutex, commitingBegin, PREPLOGBUFFER, files lock, committingReset, release of the
\* read lock, WRITETOJOURNAL, committingNotifyCommitted, WRITETODATAFILES, builder
\* reset; the read lock is held up to and including committingReset and not after;
\* the commit mutex and the files lock are held until the data files are written.
C17_LimitedLocksOrder ==
    /\ [](\A t \in Threads :
            /\ pc[t] \in LLRange(2, 8) => lockState[t] = "R"
            /\ pc[t] \in LLRange(9, 13) => lockState[t] = "none"
            /\ pc[t] \in LLRange(3, 13) => groupCommitMutex = t
            /\ pc[t] \in LLRange(7, 13) => t \in mmmutex
            /\ pc[t] \in LLRange(5, 7) => hasWritten)
    /\ [][\A t \in Threads :
            (pc[t] \in LLRange(1, 13) /\ pc'[t] \notin {pc[t], "dead"}) =>
                /\ \/ pc[t] # "LL_abreset" /\ pc'[t] = LLOrder[LLIndex(pc[t]) + 1]
                   \/ pc[t] \in {"LL_check", "LL_abreset"} /\ pc'[t] = "sleep"
                /\ pc[t] = "LL_lockR" => lockState'[t] = "R"
                /\ pc[t] = "LL_mutex" => groupCommitMutex' = t
                /\ pc[t] = "LL_prep" => ab' = {<<a, View(a)>> : a \in commitJob.intents}
                /\ pc[t] = "LL_reset" => (~commitJob'.hasWritten /\ lockState'[t] = "R")
                /\ pc[t] = "LL_journal" => Len(journal') = Len(journal) + 1
                /\ pc[t] = "LL_journalEnd" => journal'[Len(journal')] =
                                                 [data |-> ab, complete |-> TRUE]
                /\ pc[t] = "LL_notify" => notify'.lastDone = commitJob.commitNumber
                /\ pc[t] = "LL_datafiles" =>
                      /\ \A p \in ab : shared'[p[1]] = p[2]
                      /\ groupCommitMutex' = t /\ t \in mmmutex'
                /\ pc[t] = "LL_abreset" =>
                      (ab' = {} /\ groupCommitMutex' = NoThread /\ t \notin mmmutex')
         ]_vars

\* the data files are being written under the commit mutex and the files lock while
\* a foreground thread writes under 'w'
C17_Witness ==
    /\ pc[DurThread] = "LL_datafiles"
    /\ lockState[DurThread] = "none"
    /\ groupCommitMutex = DurThread
    /\ DurThread \in mmmutex
    /\ \E t \in Fg : lockState[t] = "w" /\ hasWritten

\* C18 (limited-locks timeout): when the background thread cannot get the global read
\* lock of the limited-locks path, it can give up and go for the full-lock path in
\* the same iteration, with the intent buffer and the journal unchanged.
C18_TimeoutFallsBack ==
    (Running /\ pc[DurThread] = "LL_lockR" /\ ~Compatible(DurThread, "R")) =>
        ENABLED (/\ Next
                 /\ pc'[DurThread] = "FL_lockW"
                 /\ UNCHANGED <<commitJob, journal>>)

\* C19 as claimed: every full-lock commit cycle ends in 'W', either entered in 'W' or
\* upgraded to it, with the private views remapped.
C19_Original ==
    \A t \in Threads :
        (pc[t] \in {"CN_ret", "DTGC_ret"} /\ call[t].began) =>
            (lockState[t] = "W" /\ privateMapBytes = 0)

\* C19 as amended: the full-lock cycle of the background thread (lgw set) is entered
\* in 'R' and ends with the upgrade to 'W' followed by the remap; the full-lock cycle of
\* a foreground thread that is not in 'W' ends without upgrade and without remap.
C19_UpgradeThenRemap ==
    /\ pc[DurThread] \in InGroupCommit \ {"GC_remap"} => lockState[DurThread] = "R"
    /\ pc[DurThread] = "GC_upgrade" =>
          (lockState[DurThread] = "R" /\ call[DurThread].began
              /\ groupCommitMutex # DurThread /\ ~hasWritten)
    /\ pc[DurThread] = "GC_remap" =>
          (lockState[DurThread] = "W" /\ call[DurThread].upgraded)
    /\ pc[DurThread] = "DTGC_ret" =>
          /\ call[DurThread].began
          /\ call[DurThread].upgraded
          /\ lockState[DurThread] = "W"
          /\ privateMapBytes = 0
    /\ \A t \in Fg :
          /\ pc[t] = "GC_remap" => call[t].entry \in {"w", "W"}
          /\ (pc[t] = "CN_ret" /\ call[t].began /\ call[t].entry \in {"none", "R"}) =>
                (lockState[t] = "R" /\ ~call[t].upgraded)

\* the background thread is back from the remap of a full-lock cycle that journaled
C19_Witness ==
    /\ pc[DurThread] = "DTGC_ret"
    /\ call[DurThread].upgraded
    /\ lockState[DurThread] = "W"
    /\ Len(journal) > 0
    /\ journal[Len(journal)].complete
    /\ privateMapBytes = 0

\* C20 (full-lock cycle entered in 'W'): at the end of the mutex scope the cycle counts
\* itself in _commitsInWriteLock, by one, and remaps under the lock it has before it
\* returns; nothing else changes the counter.
C20_CommitInWriteLock ==
    [][/\ (commitsInWriteLock' # commitsInWriteLock /\ Running') =>
             \E t \in Threads :
                 /\ pc[t] = "GC_unlock" /\ pc'[t] = "GC_remap"
                 /\ lockState[t] = "W"
                 /\ commitsInWriteLock' = commitsInWriteLock + 1
       /\ \A t \in Threads :
             /\ (pc[t] = "GC_unlock" /\ lockState[t] = "W"
                   /\ pc'[t] \notin {"GC_unlock", "dead"}) =>
                   /\ pc'[t] = "GC_remap"
                   /\ lockState'[t] = "W"
                   /\ commitsInWriteLock' = commitsInWriteLock + 1
             /\ (pc[t] = "GC_remap" /\ pc'[t] \notin {"GC_remap", "dead"}) =>
                   /\ lockState[t] = "W" /\ lockState'[t] = "W"
                   /\ privateMapBytes' = 0
                   /\ pc'[t] = AfterGroupCommit(t)
                   /\ UNCHANGED commitsInWriteLock
      ]_vars

\* a caller in 'W' is back from its cycle and its remap; the counter is 1
C20_Witness ==
    \E t \in Fg :
        /\ pc[t] = "CN_ret"
        /\ call[t].entry = "W"
        /\ call[t].began
        /\ commitsInWriteLock = 1
        /\ privateMapBytes = 0
        /\ Len(journal) > 0

\* ------------------------------------------------------------- C21
\* a cycle that ran commitingBegin and has not run committingReset yet
BeforeReset == PrepToReset \cup {"LL_check", "GC_check"}

\* C21: the sections are written to the journal in the order of their cycles'
\* commitingBegin (increasing commit numbers) and are written to the data files in
\* that same order, each one before the next section's journal write starts; and
\* when a cycle starts its journal write, no cycle that began before it is still
\* short of its committingReset
C21_SectionOrder ==
    /\ [](seqG.applied \in {0, seqG.journaled} \/ seqG.applied < seqG.journaled)
    /\ [][\A t \in Threads :
             /\ (pc[t] \in {"LL_journal", "GC_journal"} /\ Len(journal') > Len(journal)
                   /\ pc'[t] # pc[t]) =>
                   /\ seqG.run[t] > seqG.journaled
                   /\ seqG.applied = seqG.journaled
                   /\ seqG'.journaled = seqG.run[t]
                   /\ \A u \in Others(t) :
                         ~(pc[u] \in BeforeReset /\ seqG.run[u] < seqG.run[t])
             /\ (pc[t] \in {"LL_datafiles", "GC_datafiles"} /\ shared' # shared
                   /\ pc'[t] # pc[t] /\ Running') =>
                   /\ seqG.run[t] = seqG.journaled
                   /\ seqG.run[t] > seqG.applied
                   /\ seqG'.applied = seqG.run[t]
         ]_vars

\* a second section has been written to the journal and to the data files, after a
\* section of another thread's cycle
C21_Witness ==
    /\ Running
    /\ Len(journal) >= 2
    /\ seqG.applied = seqG.journaled
    /\ \E t \in Fg : pc[t] = "GC_reset" /\ seqG.run[t] = seqG.applied
    /\ pc[DurThread] = "sleep"
    /\ n > 0

\* ------------------------------------------------------------- C22
\* the positions a thread can go to from a position of a commit cycle when nothing
\* fails
CycleSucc(p) ==
    CASE p = "LL_check" -> {"LL_prep", "sleep"}
      [] p = "LL_abreset" -> {"sleep"}
      [] p \in LLRange(1, 12) -> {LLOrder[LLIndex(p) + 1]}
      [] p = "GC_mutex" -> {"GC_begin"}
      [] p = "GC_begin" -> {"GC_check"}
      [] p = "GC_check" -> {"GC_prep", "GC_unlock"}
      [] p = "GC_prep" -> {"GC_journal"}
      [] p = "GC_journal" -> {"GC_journalEnd"}
      [] p = "GC_journalEnd" -> {"GC_notify"}
      [] p = "GC_notify" -> {"GC_datafiles"}
      [] p = "GC_datafiles" -> {"GC_reset"}
      [] p = "GC_reset" -> {"GC_abreset"}
      [] p = "GC_abreset" -> {"GC_unlock"}
      [] p = "GC_unlock" -> {"GC_upgrade", "GC_remap", "DTGC_ret", "CN_ret"}
      [] p = "GC_upgrade" -> {"GC_remap"}
      [] p = "GC_remap" -> {"DTGC_ret", "CN_ret"}
      [] p = "sleep" -> {"LL_lockR", "FL_lockW"}
      [] p = "FL_lockW" -> {"FL_downgrade"}
      [] p = "FL_downgrade" -> {"GC_mutex"}
      [] p = "DTGC_ret" -> {"sleep"}
      [] OTHER -> {}

FullInWindow(i, j) ==
    Cardinality({k \in i .. j : modeG[k].path = "full" /\ modeG[k].remap})

\* C23: with DurAlwaysRemap off, any 20 consecutive background cycles during which
\* privateMapBytes stayed under UncommittedBytesLimit hold exactly 2 cycles on the
\* full-lock path with a remap; the 18 others are limited-locks cycles without one
C23_RemapCadence ==
    durOptions = {} =>
        \A i \in 1 .. Len(modeG) :
            (i + 19 <= Len(modeG) /\ \A k \in i .. i + 19 : modeG[k].below) =>
                /\ FullInWindow(i, i + 19) = 2
                /\ Cardinality({k \in i .. i + 19 :
                                  modeG[k].path = "limited" /\ ~modeG[k].remap}) = 18

\* 20 consecutive cycles under the budget have run, the first of them in the middle of
\* a round of the counter
C23_Witness ==
    /\ durOptions = {}
    /\ Len(modeG) = MaxCycles
    /\ \A k \in 4 .. 23 : modeG[k].below
    /\ ~modeG[3].below
    /\ FullInWindow(4, 23) = 2

\* ------------------------------------------------------------- C24
\* C24: a background cycle takes the limited-locks path exactly when privateMapBytes
\* is under UncommittedBytesLimit, the counter it has just incremented is not a
\* multiple of N and DurAlwaysRemap is off; every other cycle takes the full-lock
\* path and remaps
C24_ModeChoice ==
    [][\A t \in {DurThread} :
          /\ (pc[t] = "sleep" /\ pc'[t] # "sleep") =>
                /\ pc'[t] = "LL_lockR" <=>
                      /\ privateMapBytes < UncommittedBytesLimit
                      /\ n' # 0
                      /\ "DurAlwaysRemap" \notin durOptions
                /\ pc'[t] # "LL_lockR" => pc'[t] = "FL_lockW"
                /\ n' = IF privateMapBytes < UncommittedBytesLimit THEN (n + 1) % N ELSE n
          /\ (pc[t] = "FL_lockW" /\ pc'[t] # "FL_lockW") =>
                /\ Len(modeG') = Len(modeG) + 1
                /\ modeG'[Len(modeG')].path = "full"
                /\ modeG'[Len(modeG')].remap
                /\ privateMapBytes' = 0
          /\ (pc[t] = "LL_lockR" /\ pc'[t] # "LL_lockR") =>
                /\ Len(modeG') = Len(modeG) + 1
                /\ modeG'[Len(modeG')].path = "limited"
                /\ ~modeG'[Len(modeG')].remap
      ]_vars

\* each cause of the full-lock path that the options leave has occurred, the counter
\* and the budget, next to a limited-locks cycle
C24_Witness ==
    /\ durOptions = {}
    /\ \E i, j \in 1 .. Len(modeG) :
          /\ modeG[i].path = "full" /\ modeG[i].below
          /\ modeG[j].path = "full" /\ ~modeG[j].below
    /\ \E i \in 1 .. Len(modeG) : modeG[i].path = "limited"

\* ------------------------------------------------------------- C25
\* the files a sweep of `todo' files starting at index `from' is to visit
Consecutive(from, todo, sz) == {(from + x) % sz : x \in 0 .. todo - 1}

\* C25: on a fixed set of mapped files of any kinds, each sweep visits the ntodo
\* consecutive files (cyclically) that start where the sweep before it stopped, and
\* sweeps as many as there are files have visited every file
C25_RoundRobin ==
    (Len(allFiles) > 0 /\ sweepG.count > 0) =>
        /\ sweepG.examined = Consecutive(sweepG.from, sweepG.todo, Len(allFiles))
        /\ sweepG.count >= Len(allFiles) => sweepG.ever = 0 .. Len(allFiles) - 1

\* ------------------------------------------------------------- C26
\* C26: after every call of the remapper privateMapBytes is zero (a call that finds no
\* mapped file returns before the reset, and finds the counter at zero)
C26_FootprintReset ==
    [][sweepG'.count # sweepG.count => privateMapBytes' = 0]_vars

\* a sweep over mapped files has returned with the counter at zero, which was not
\* zero when it was called
C26_Witness ==
    /\ sweepG.count >= 2
    /\ Len(allFiles) >= 2
    /\ sweepG.bytes > 0
    /\ sweepG.todo < Len(allFiles)
    /\ privateMapBytes = 0

\* ------------------------------------------------------------- C27
\* C27: _REMAPPRIVATEVIEW runs only while its caller holds the global lock in 'W', on
\* the background thread's upgrade path and on the path of an early commit in W
\* alike, so invariant(isW()) holds at every call; and while it runs no other thread
\* holds the global lock in any mode
C27_RemapExclusive ==
    \A t \in Threads :
        pc[t] = "GC_remap" =>
            /\ lockState[t] = "W"
            /\ call[t].upgraded \/ call[t].entry = "W"
            /\ \A u \in Others(t) : lockState[u] = "none" /\ pc[u] # "GC_remap"

\* a foreground caller in W is at the remap of its early commit, which journaled a
\* section, while the background thread waits for its read lock
C27_Witness ==
    \E t \in Fg :
        /\ pc[t] = "GC_remap"
        /\ call[t].entry = "W"
        /\ ~call[t].upgraded
        /\ lockState[t] = "W"
        /\ Len(journal) > 0
        /\ pc[DurThread] = "LL_lockR"

\* ------------------------------------------------------------- C28
\* C28: in every iteration the background thread sleeps one, two or three thirds of
\* the interval before it commits; it sleeps another third only after a check that
\* found no thread waiting for an acknowledgement and not more than half of
\* UncommittedBytesLimit buffered, and it goes on to the commit without its remaining
\* sleeps as soon as a check finds either
C28_WakeUp ==
    /\ [](pc[DurThread] = "commit" => slept \in 1 .. 3)
    /\ [][/\ (pc[DurThread] = "check" /\ slept' # slept) =>
                /\ slept' = slept + 1
                /\ slept < 3
                /\ notify.nWaiting = 0
                /\ commitJob.bytes <= UncommittedBytesLimit \div 2
          /\ (pc[DurThread] = "check" /\ pc'[DurThread] = "commit") =>
                \/ slept = 3
                \/ notify.nWaiting > 0
                \/ commitJob.bytes > UncommittedBytesLimit \div 2
          /\ (pc[DurThread] = "check" /\ slept < 3
                /\ (notify.nWaiting > 0 \/ commitJob.bytes > UncommittedBytesLimit \div 2)) =>
                slept' = slept
          /\ pc'[DurThread] \in {"LL_lockR", "FL_lockW"} /\ pc[DurThread] # pc'[DurThread] =>
                pc[DurThread] = "commit"
         ]_vars

\* the background thread is about to commit after two of the three sleeps: its second
\* check found more than half of the limit buffered and nobody waiting
C28_Witness ==
    /\ pc[DurThread] = "commit"
    /\ slept = 2
    /\ notify.nWaiting = 0
    /\ commitJob.bytes > UncommittedBytesLimit \div 2
    /\ n > 0

\* ------------------------------------------------------------- C29
\* C29: the background thread leaves its loop only at the top of an iteration, having
\* found inShutdown() true, so never from inside a commit cycle; when shutdownServer
\* flushes and closes the files, its final commit has waited for every commit cycle
\* in flight: no thread is in a cycle, the commit mutex is free, nothing is buffered,
\* and the data files hold every byte written; and at the exit of the process no
\* cycle is in flight
C29_Shutdown ==
    /\ [](phase = "exited" => \A t \in Threads : pc[t] \notin InCycle \cup PrepToReset)
    /\ [][/\ (pc'[DurThread] = "done" /\ pc[DurThread] # "done") =>
                pc[DurThread] = "sleep" /\ numExitCalls > 0
          /\ (allFiles' = <<>> /\ allFiles # <<>>) =>
                /\ \A t \in Threads : pc[t] \notin InCycle \cup PrepToReset
                /\ groupCommitMutex = NoThread
                /\ ~hasWritten
                /\ ab = {}
                /\ \A a \in Addr : disk'[a] = privVal[a]
         ]_vars

\* the process has exited after the final commit of two writes, and the background
\* thread had left its loop
C29_Witness ==
    /\ phase = "exited"
    /\ pc[DurThread] = "done"
    /\ nwrites >= 2
    /\ \A a \in Addr : disk[a] = nwrites
    /\ commitsInWriteLock = 1

\* ------------------------------------------------------------- C30
\* C30: with durability configured, startup() enables the durable implementation
\* before it calls recover(), calls recover() once, and starts the background thread
\* only after recover() has returned normally, the journal then being replayed into
\* the data files; if recover() throws, startup() is left by the exception and no
\* background thread is ever started; without durability configured startup() changes
\* nothing
C30_StartupOrder ==
    /\ [](/\ startupG.recovers <= 1
          /\ startupG.at = "recover" => startupG.impl = "durable" /\ startupG.recovers = 0
          /\ startupG.recovers = 1 => startupG.dur /\ startupG.impl = "durable"
          /\ startupG.thread =>
                /\ startupG.dur
                /\ startupG.recovers = 1
                /\ ~startupG.thrown
                /\ phase = "recovered"
                /\ disk = recover(journal, disk)
          /\ (startupG.recovers = 1 /\ startupG.fails) =>
                startupG.thrown /\ startupG.at = "thrown" /\ ~startupG.thread
          /\ ~startupG.dur =>
                /\ startupG.impl = "nonDurable"
                /\ startupG.recovers = 0
                /\ ~startupG.thread
                /\ phase = "crashed"
                /\ pc[DurThread] = "dead")
    /\ [][/\ ~startupG.dur => UNCHANGED <<disk, journal, shared>>
          /\ pc'[DurThread] # pc[DurThread] => startupG.at = "thread" /\ startupG'.thread
          /\ startupG.thrown => UNCHANGED vars
         ]_vars

\* startup() has returned with the background thread started; recover() replayed a
\* complete section that the data files did not hold
C30_Witness ==
    /\ startupG.at = "returned"
    /\ startupG.thread
    /\ pc[DurThread] = "sleep"
    /\ Len(journal) = 2
    /\ journal[2].complete
    /\ \E a \in Addr : disk[a] \notin written[a]

\* ------------------------------------------------------------- C31
\* the content of address a after the first k sections of jnl were applied to m in
\* order: the value of the last of them that holds a, or m[a]
AfterSections(jnl, k, m, a) ==
    LET S == {i \in 1 .. k : \E p \in jnl[i].data : p[1] = a}
    IN  IF S = {} THEN m[a]
        ELSE LET i == CHOOSE j \in S : \A l \in S : l <= j
             IN  (CHOOSE p \in jnl[i].data : p[1] = a)[2]

\* the number of valid sections of a journal whose sections before the last are valid
ValidSections(jnl) ==
    IF jnl # <<>> /\ ~jnl[Len(jnl)].complete THEN Len(jnl) - 1 ELSE Len(jnl)

\* C31: recover() of a journal of k valid sections followed by one invalid last
\* section applies the k valid sections in order, leaves the last one out and does
\* not throw; an invalid section before the last one makes recover() throw, so that
\* startup() is left by the exception and the process does not go on to serve
C31_TruncatedTail ==
    [][(startupG.at = "recover" /\ startupG'.at # "recover" /\ ~startupG.fails) =>
          IF Corrupt(journal)
          THEN /\ startupG'.thrown
               /\ startupG'.at = "thrown"
               /\ phase' = "crashed"
          ELSE /\ ~startupG'.thrown
               /\ phase' = "recovered"
               /\ \A a \in Addr :
                     disk'[a] = AfterSections(journal, ValidSections(journal), disk, a)
      ]_vars

\* recover() has returned from a journal of two valid sections and a truncated third
\* one: the data files hold the second section and not the third
C31_Witness ==
    /\ startupG.at = "preallocateFiles"
    /\ ~startupG.thrown
    /\ Len(journal) = 3
    /\ journal[1].complete /\ journal[2].complete /\ ~journal[3].complete
    /\ journal[1].data # journal[2].data
    /\ journal[3].data # journal[2].data
    /\ \A p \in journal[2].data : disk[p[1]] = p[2]

\* ------------------------------------------------------------- C32
\* the data files m hold every byte of the section
Reflects(m, sec) == \A p \in sec : m[p[1]] = p[2]

\* C32: replaying a valid section onto data files that already hold it changes no
\* byte, replaying a section twice gives what replaying it once gives, and replaying
\* the whole journal onto recovered data files changes no byte
C32_IdempotentReplay ==
    /\ \A i \in DOMAIN journal :
          /\ journal[i].complete /\ Reflects(disk, journal[i].data) =>
                ApplySection(disk, journal[i].data) = disk
          /\ journal[i].complete =>
                ApplySection(ApplySection(disk, journal[i].data), journal[i].data)
                   = ApplySection(disk, journal[i].data)
    /\ phase = "recovered" => recover(journal, disk) = disk
    /\ recover(journal, recover(journal, disk)) = recover(journal, disk)

\* recovered data files that hold the last of two valid sections, which the replay
\* changed
C32_Witness ==
    /\ phase = "recovered"
    /\ Len(journal) = 2
    /\ journal[1].complete /\ journal[2].complete
    /\ journal[1].data # journal[2].data
    /\ Reflects(disk, journal[2].data)
    /\ \E a \in Addr : disk[a] \notin written[a]

\* ------------------------------------------------------------- C33
\* C33: syncDataAndTruncateJournal, called in 'W', starts its commit only when the
\* commit mutex is free, so that no cycle is in flight; when it flushes the files and
\* removes the journal, no thread is inside a commit cycle, no intent is buffered, no
\* prepared section waits for its data-file write, and the flushed data files hold
\* every byte written; it returns with nothing buffered and no journal
C33_SyncAndTruncate ==
    [][\A t \in Callers :
          /\ (pc[t] = "SD_mutex" /\ pc'[t] = "SD_commit") =>
                /\ lockState[t] = "W"
                /\ groupCommitMutex = NoThread
                /\ \A u \in Threads : pc[u] \notin InCycle
          /\ (pc[t] = "CN_ret" /\ pc'[t] = "idle") =>
                /\ lockState[t] = "W"
                /\ \A u \in Threads : pc[u] \notin InCycle
                /\ groupCommitMutex = NoThread
                /\ ab = {}
                /\ ~hasWritten /\ ~hasWritten'
                /\ commitJob'.intents = {}
                /\ journal' = <<>>
                /\ \A a \in Addr : disk'[a] = privVal[a]
                /\ \A a \in Addr : disk'[a] = shared[a]
      ]_vars

\* syncDataAndTruncateJournal has returned in 'W' after two writes, one of them
\* journaled by a limited-locks cycle of the background thread: the data files hold
\* them and the journal is gone
C33_Witness ==
    \E t \in Callers :
        /\ pc[t] = "idle"
        /\ lockState[t] = "W"
        /\ nwrites >= 2
        /\ journal = <<>>
        /\ \A a \in Addr : disk[a] = nwrites
        /\ seqG.journaled >= 2
        /\ commitsInWriteLock = 1
        /\ n > 0

\* ------------------------------------------------------------- C34
\* C34: lgw is set in the call of the background thread only; only the background
\* thread is ever at the upgrade of _groupCommit, so at most one thread waits there;
\* and the global lock of a foreground thread does not change while the thread is in
\* groupCommit
C34_OneUpgrader ==
    /\ [](/\ \A t \in Threads : call[t].lgw => t = DurThread
          /\ \A t \in Threads : pc[t] = "GC_upgrade" => (t = DurThread /\ call[t].lgw)
          /\ Cardinality({t \in Threads : pc[t] = "GC_upgrade"}) <= 1)
    /\ [][\A t \in Threads :
             /\ (pc[t] \in InGroupCommit /\ lockState'[t] # lockState[t] /\ Running') =>
                   /\ t = DurThread
                   /\ pc[t] = "GC_upgrade"
                   /\ lockState[t] = "R" /\ lockState'[t] = "W"
             /\ (t \in Fg /\ pc[t] = "GC_unlock" /\ lockState[t] # "W"
                   /\ pc'[t] \notin {"GC_unlock", "dead"}) =>
                   pc'[t] = "CN_ret" /\ ~call'[t].upgraded
         ]_vars

\* the background thread waits for its upgrade while a foreground thread in 'R' is
\* at the end of the commit cycle of its early commit, which it leaves without upgrade
C34_Witness ==
    /\ pc[DurThread] = "GC_upgrade"
    /\ lockState[DurThread] = "R"
    /\ \E t \in Fg :
          /\ pc[t] = "GC_unlock"
          /\ lockState[t] = "R"
          /\ call[t].began
          /\ ~call[t].lgw
    /\ Len(journal) >= 1

\* ------------------------------------------------------------- C35
\* C35: closingFileNotification kills the process exactly when durability is on,
\* writes are buffered and the process is not shutting down; with durability on and
\* writes buffered during shutdown it only warns; in every other case, and when it
\* warns, it changes nothing; and the close of Database::closeDatabase, made in 'W'
\* after commitIfNeeded(true), finds nothing buffered, so it is never fatal
C35_ClosingFiles ==
    /\ [](\A t \in Fg : pc[t] = "CD_notify" =>
             /\ lockState[t] = "W"
             /\ ~(startupG.dur /\ hasWritten))
    /\ [](\A t \in Fg : pc[t] # "CD_warned")
    /\ [][\A t \in Fg :
             (pc[t] \in {"CD_notify", "CF_notify"} /\ pc'[t] # pc[t]) =>
                /\ (startupG.dur /\ hasWritten /\ numExitCalls = 0) => phase' = "crashed"
                /\ phase' = "crashed" =>
                      \/ startupG.dur /\ hasWritten /\ numExitCalls = 0
                      \/ \E u \in Callers \ {t} :
                            pc[u] = "idle" /\ lockState[u] \notin {"none", "W"}
                /\ phase' # "crashed" =>
                      /\ pc'[t] \in {"CD_warned", "CF_warned"} <=>
                            (startupG.dur /\ hasWritten /\ numExitCalls > 0)
                      /\ pc'[t] \in {"CD_closed", "CF_closed"} <=>
                            (~startupG.dur \/ ~hasWritten)
                      /\ UNCHANGED <<call, lockVars, commitJob, notify, waitFor,
                                     privateMapBytes, n, ab, dbLocked, commitsInWriteLock,
                                     seqG, auxVars, memVars, diskVars, histVars>>
         ]_vars

\* with durability on and the process not shutting down, closeDatabase has closed
\* its files after its forced commit journaled a write
C35_Witness ==
    \E t \in Callers :
        /\ pc[t] = "CD_closed"
        /\ startupG.dur
        /\ numExitCalls = 0
        /\ lockState[t] = "W"
        /\ nwrites >= 1
        /\ Len(journal) >= 1
        /\ commitsInWriteLock >= 1
        /\ \A a \in Addr : shared[a] = privVal[a]

\* ------------------------------------------------------------- C36
\* C36: the active implementation is always one of the two; enableDurability
\* succeeds exactly when the non-durable one is active and then makes the durable one
\* active; disableDurability succeeds exactly when the durable one is active and
\* nothing is buffered, and then makes the non-durable one active; a call that fails
\* leaves the active implementation and the intent buffer as they are; nothing else
\* changes the active implementation
C36_ModeSwitch ==
    /\ [](startupG.impl \in {"nonDurable", "durable"})
    /\ [][\A t \in Callers :
             /\ pc[t] = "idle" /\ pc'[t] \in {"EN_ok", "EN_threw"} =>
                   /\ pc'[t] = "EN_ok" <=> startupG.impl = "nonDurable"
                   /\ pc'[t] = "EN_ok" => startupG'.impl = "durable"
                   /\ pc'[t] = "EN_threw" => UNCHANGED <<startupG, commitJob>>
             /\ pc[t] = "idle" /\ pc'[t] \in {"DIS_ok", "DIS_threw"} =>
                   /\ pc'[t] = "DIS_ok" <=> (startupG.impl = "durable" /\ ~hasWritten)
                   /\ pc'[t] = "DIS_ok" => startupG'.impl = "nonDurable"
                   /\ pc'[t] = "DIS_threw" => UNCHANGED <<startupG, commitJob>>
             /\ startupG'.impl # startupG.impl => pc'[t] \in {"EN_ok", "DIS_ok"}
         ]_vars

\* disableDurability has failed with a write buffered: DurableImpl is still active
C36_Witness ==
    \E t \in Callers :
        /\ pc[t] = "DIS_threw"
        /\ startupG.impl = "durable"
        /\ hasWritten
        /\ commitJob.intents # {}
        /\ Len(journal) >= 1

\* ------------------------------------------------------------- C37, C38
\* C37: a call of commitIfNeeded that has gone on to _aCommitIsNeeded is about to
\* return true ("CN_ret") if and only if a commit cycle was begun during the call.
\* Refuted by case 'w' of _aCommitIsNeeded: with the upgrade to the exclusive lock
\* refused, commitNow is skipped and the call still returns true.
C37_TrueIffCommitted ==
    \A t \in Fg :
        pc[t] \in {"CN_ret", "CN_retFalse", "CN_declined"} =>
            (pc[t] = "CN_ret" <=> call[t].began)

\* C38: for every value bytes() takes, isCommitNeeded() is true exactly when
\* commitIfNeeded(force = false) goes on to _aCommitIsNeeded.  Refuted at
\* bytes() = UncommittedBytesLimit: isCommitNeeded tests '>', commitIfNeeded returns
\* at once only when '<'.
C38_SameThreshold ==
    isCommitNeeded <=> ~returnsAtOnce(FALSE)

\* ------------------------------------------------------------- C39
\* where a thread is blocked for the global lock, the commit mutex or the
\* mapped-files lock
LockWait == {"LL_lockR", "ACN_lockR", "FL_lockW", "GC_upgrade", "LL_mutex", "GC_mutex",
             "LL_lk3"}

BuilderInUse == {"LL_lk3", "LL_reset", "LL_unlockR", "LL_journal", "LL_journalEnd",
                 "LL_notify", "LL_datafiles",
                 "GC_journal", "GC_journalEnd", "GC_notify", "GC_datafiles"}

\* where the limited-locks path evaluates verify( abLen == ab.len() )
AtLengthCheck == {"LL_notify", "LL_abreset"}

\* C40 (log builder ownership): the builder is empty when a cycle is about to run
\* PREPLOGBUFFER; while a cycle is between the return of PREPLOGBUFFER and the return
\* of WRITETODATAFILES no step of any thread changes the builder as long as the process
\* runs; and where the limited-locks path compares the builder's length with the one
\* it noted, the builder still holds the section that cycle wrote to the journal.
C40_BuilderOwnership ==
    /\ [](\A t \in Threads : pc[t] \in {"LL_prep", "GC_prep"} => ab = {})
    /\ [](\A t \in Threads :
             pc[t] \in AtLengthCheck =>
                 /\ Len(journal) > 0
                 /\ journal[Len(journal)].data = ab
                 /\ Cardinality(journal[Len(journal)].data) = Cardinality(ab))
    /\ [][\A t \in Threads :
             (pc[t] \in BuilderInUse /\ phase' = "running") =>
                 /\ ab' = ab
                 /\ Cardinality(ab') = Cardinality(ab)
         ]_vars

\* the background thread is past WRITETODATAFILES in the limited-locks path with its
\* section still in the builder, while a writer has written again and the caller's
\* early commit waits for the commit mutex
C40_Witness ==
    /\ pc[DurThread] = "LL_abreset"
    /\ ab # {}
    /\ hasWritten
    /\ bytes >= UncommittedBytesLimit
    /\ \E t \in Callers : pc[t] = "GC_mutex" /\ groupCommitMutex = DurThread

====
